---- MODULE Spec2Model ----
(***************************************************************************)
(* Syntax highlighting of the Edit text editor: the per-language byte      *)
(* scanners (crates/edit/src/syntax/lexer/*.rs), the language registry     *)
(* (lexer.rs), the theme (theme.rs) and the highlight cache (syntax.rs).   *)
(*                                                                         *)
(* A text is a sequence of bytes (0..255).  Rust indexes from 0, TLA+ from *)
(* 1: At(text, i) is text[i] of the source.  A scanner is modelled by its  *)
(* step operator, one iteration of the `while pos < text.len()` main loop: *)
(* it returns the cursor after the iteration, the tokens pushed by it and  *)
(* how the iteration ended ("ok", "panic" for an out-of-range index,       *)
(* "hang" for an inner loop that never leaves).                            *)
(***************************************************************************)
EXTENDS Integers, Sequences, FiniteSets, TLC

\* Longest text given to a scanner on its own.
MaxLen == 4
\* Longest text given to the highlighter, and largest offset of a query.
HlMaxLen == 2
MaxOff == 3
\* Longest text, beside the sample texts, of the repeated and concurrent calls.
CallMaxLen == 2
\* Most pieces in a string given to parse_color.
ColorMaxUnits == 4

\* usize::MAX, the end of the initial dirty range; it is only ever compared.
UsizeMax == 2147483647

-----------------------------------------------------------------------------
(* Bytes *)

Ch == [ tab |-> 9, lf |-> 10, cr |-> 13, sp |-> 32, bang |-> 33, dq |-> 34,
        hash |-> 35, dollar |-> 36, percent |-> 37, amp |-> 38, sq |-> 39,
        lparen |-> 40, rparen |-> 41, star |-> 42, plus |-> 43, comma |-> 44,
        minus |-> 45, dot |-> 46, slash |-> 47, colon |-> 58, semi |-> 59,
        lt |-> 60, eq |-> 61, gt |-> 62, quest |-> 63, at |-> 64,
        lbracket |-> 91, bslash |-> 92, rbracket |-> 93, caret |-> 94,
        under |-> 95, btick |-> 96, lbrace |-> 123, pipe |-> 124,
        rbrace |-> 125, tilde |-> 126 ]

\* b'0'..=b'9', b'a'..=b'z', b'A'..=b'Z'
Digits == 48..57
Lower == 97..122
Upper == 65..90

At(text, i) == text[i + 1]

\* text[a..b] of the source, for 0 <= a <= b <= len
Slice(text, a, b) == SubSeq(text, a + 1, b)

is_whitespace(b) == b \in {Ch.sp, Ch.tab, Ch.lf, Ch.cr}
is_ascii_alpha(b) == b \in Lower \cup Upper
is_ascii_digit(b) == b \in Digits
is_ascii_alphanumeric(b) == b \in Lower \cup Upper \cup Digits
is_ident_start(b) == is_ascii_alpha(b) \/ b = Ch.under
is_ident_continue(b) == is_ascii_alphanumeric(b) \/ b = Ch.under

-----------------------------------------------------------------------------
(* Tokens *)

Token(kind, start, end) == [kind |-> kind, span |-> [start |-> start, end |-> end]]


\* The outcome of one iteration of a scanner's main loop.
Ok(pos, toks) == [pos |-> pos, toks |-> toks, status |-> "ok"]
Panic(pos) == [pos |-> pos, toks |-> <<>>, status |-> "panic"]
Hang(pos, toks) == [pos |-> pos, toks |-> toks, status |-> "hang"]

\* An iteration that pushes one token start..pos.
One(kind, start, pos) == Ok(pos, <<Token(kind, start, pos)>>)

(* Guards.  A match guard or an `if` condition of the source reads bytes;  *)
(* a read outside the text panics.  A guard evaluates to "T", "F" or, when *)
(* it indexes outside the text, "P".  && and || short-circuit as in Rust.  *)
T3(b) == IF b THEN "T" ELSE "F"
ByteIn(text, i, S) ==
    IF i < 0 \/ i >= Len(text) THEN "P" ELSE T3(At(text, i) \in S)
ByteIs(text, i, c) == ByteIn(text, i, {c})
And3(x, y) == IF x = "T" THEN y ELSE x
Or3(x, y) == IF x = "F" THEN y ELSE x
\* text[a..b] == word, which panics when b > len
SliceIs(text, a, b, word) ==
    IF b > Len(text) \/ a > b THEN "P" ELSE T3(Slice(text, a, b) = word)
If3(g, pos, a, b) == IF g = "P" THEN Panic(pos) ELSE IF g = "T" THEN a ELSE b

\* while pos < text.len() && S.contains(text[pos]) { pos += 1 }
RECURSIVE SkipWhile(_, _, _)
SkipWhile(text, pos, S) ==
    IF pos < Len(text) /\ At(text, pos) \in S
    THEN SkipWhile(text, pos + 1, S) ELSE pos

\* while pos < text.len() && !S.contains(text[pos]) { pos += 1 }
RECURSIVE SkipUntil(_, _, _)
SkipUntil(text, pos, S) ==
    IF pos < Len(text) /\ At(text, pos) \notin S
    THEN SkipUntil(text, pos + 1, S) ELSE pos

WS == {Ch.sp, Ch.tab, Ch.lf, Ch.cr}

\* A string loop without the escaped flag: the first quote ends it.
EscapedStringEndAtFirstQuote(text, pos, escaped, quote) ==
    IF SkipUntil(text, pos, {quote}) < Len(text)
    THEN SkipUntil(text, pos, {quote}) + 1
    ELSE SkipUntil(text, pos, {quote})

\* The quoted-string loop shared by the scanners: a backslash sets the
\* escaped flag, the byte after it is skipped, an unescaped quote ends it.
RECURSIVE EscapedStringEnd(_, _, _, _)
EscapedStringEnd(text, pos, escaped, quote) ==
    IF pos < Len(text)
    THEN IF escaped THEN EscapedStringEnd(text, pos + 1, FALSE, quote)
         ELSE IF At(text, pos) = Ch.bslash
              THEN EscapedStringEnd(text, pos + 1, TRUE, quote)
         ELSE IF At(text, pos) = quote THEN pos + 1
         ELSE EscapedStringEnd(text, pos + 1, FALSE, quote)
    ELSE pos

\* The block-comment loop shared by the C-like scanners:
\* while pos + 1 < len { if text[pos..pos+2] == "*/" { pos += 2; break } pos += 1 }
RECURSIVE BlockCommentEnd(_, _)
BlockCommentEnd(text, pos) ==
    IF pos + 1 < Len(text)
    THEN IF At(text, pos) = Ch.star /\ At(text, pos + 1) = Ch.slash
         THEN pos + 2
         ELSE BlockCommentEnd(text, pos + 1)
    ELSE pos

-----------------------------------------------------------------------------
(* PlainTextLexer *)

\* The plain-text scanner with a token that stops one byte short.
PlainTextTokenizeShort(text) ==
    IF text = <<>> THEN <<>> ELSE <<Token("Identifier", 0, Len(text) - 1)>>

PlainTextTokenize(text) ==
    IF text = <<>> THEN <<>> ELSE <<Token("Identifier", 0, Len(text))>>

-----------------------------------------------------------------------------
(* JsonLexer *)

JsonNumberEnd(text, start) ==
    LET p1 == SkipWhile(text, start + 1, Digits)
        p2 == IF p1 < Len(text) /\ At(text, p1) = Ch.dot
              THEN SkipWhile(text, p1 + 1, Digits) ELSE p1
        p3 == IF p2 < Len(text) /\ At(text, p2) \in {101, 69}
              THEN LET q == p2 + 1
                       r == IF q < Len(text) /\ At(text, q) \in {Ch.plus, Ch.minus}
                            THEN q + 1 ELSE q
                   IN SkipWhile(text, r, Digits)
              ELSE p2
    IN p3

JsonWordTrue == <<116, 114, 117, 101>>
JsonWordFalse == <<102, 97, 108, 115, 101>>
JsonWordNull == <<110, 117, 108, 108>>

\* Mutation of the guard below: the bound on pos + 1 is left out.
JsonCommentGuardUnbounded(text, pos) == At(text, pos) = Ch.slash

\* The guard of the comment arm: b'/' if pos + 1 < text.len()
JsonCommentGuard(text, pos) ==
    At(text, pos) = Ch.slash /\ pos + 1 < Len(text)

\* The slash arm with an error token that also takes the byte after the '/'.
JsonSlashArmWideError(text, pos) ==
    LET n == At(text, pos + 1)
    IN IF pos + 1 >= Len(text) THEN Panic(pos)
       ELSE IF n = Ch.slash
            THEN One("Comment", pos, SkipUntil(text, pos + 2, {Ch.lf}))
       ELSE IF n = Ch.star
            THEN One("Comment", pos, BlockCommentEnd(text, pos + 2))
       ELSE One("Error", pos, pos + 2)

JsonSlashArm(text, pos) ==
    LET n == At(text, pos + 1)
    IN IF pos + 1 >= Len(text) THEN Panic(pos)
       ELSE IF n = Ch.slash
            THEN One("Comment", pos, SkipUntil(text, pos + 2, {Ch.lf}))
       ELSE IF n = Ch.star
            THEN One("Comment", pos, BlockCommentEnd(text, pos + 2))
       ELSE One("Error", pos, pos + 1)

JsonStep(text, pos) ==
    LET b == At(text, pos)
        start == pos
    IN IF b \in WS THEN One("Whitespace", start, SkipWhile(text, pos, WS))
       ELSE IF b = Ch.dq
            THEN One("String", start, EscapedStringEnd(text, pos + 1, FALSE, Ch.dq))
       ELSE IF b = Ch.minus \/ b \in Digits
            THEN One("Number", start, JsonNumberEnd(text, start))
       ELSE IF JsonCommentGuard(text, pos) THEN JsonSlashArm(text, pos)
       ELSE If3(And3(T3(b = 116 /\ pos + 4 <= Len(text)),
                     SliceIs(text, pos, pos + 4, JsonWordTrue)), pos,
                One("Boolean", start, pos + 4),
            If3(And3(T3(b = 102 /\ pos + 5 <= Len(text)),
                     SliceIs(text, pos, pos + 5, JsonWordFalse)), pos,
                One("Boolean", start, pos + 5),
            If3(And3(T3(b = 110 /\ pos + 4 <= Len(text)),
                     SliceIs(text, pos, pos + 4, JsonWordNull)), pos,
                One("Null", start, pos + 4),
            IF b \in {Ch.lbrace, Ch.rbrace} THEN One("JsonBrace", start, pos + 1)
            ELSE IF b \in {Ch.lbracket, Ch.rbracket}
                 THEN One("JsonBracket", start, pos + 1)
            ELSE IF b = Ch.colon THEN One("JsonColon", start, pos + 1)
            ELSE IF b = Ch.comma THEN One("JsonComma", start, pos + 1)
            ELSE One("Error", start, pos + 1))))

-----------------------------------------------------------------------------
(* JavaScriptLexer (also registered for TypeScript) *)

IdentContinue == Lower \cup Upper \cup Digits \cup {Ch.under}
HexDigits == Digits \cup (97..102) \cup (65..70)

JavaScriptWordKind(word) ==
    \* in of instanceof typeof delete void
    IF word \in
        { <<105, 110>>, <<111, 102>>,
          <<105, 110, 115, 116, 97, 110, 99, 101, 111, 102>>,
          <<116, 121, 112, 101, 111, 102>>, <<100, 101, 108, 101, 116, 101>>,
          <<118, 111, 105, 100>> }
    THEN "KeywordOperator"
    \* if else switch case default for while do break continue return throw
    \* try catch finally
    ELSE IF word \in
        { <<105, 102>>, <<101, 108, 115, 101>>,
          <<115, 119, 105, 116, 99, 104>>, <<99, 97, 115, 101>>,
          <<100, 101, 102, 97, 117, 108, 116>>, <<102, 111, 114>>,
          <<119, 104, 105, 108, 101>>, <<100, 111>>,
          <<98, 114, 101, 97, 107>>,
          <<99, 111, 110, 116, 105, 110, 117, 101>>,
          <<114, 101, 116, 117, 114, 110>>, <<116, 104, 114, 111, 119>>,
          <<116, 114, 121>>, <<99, 97, 116, 99, 104>>,
          <<102, 105, 110, 97, 108, 108, 121>> }
    THEN "KeywordControl"
    \* function async await yield
    ELSE IF word \in
        { <<102, 117, 110, 99, 116, 105, 111, 110>>,
          <<97, 115, 121, 110, 99>>, <<97, 119, 97, 105, 116>>,
          <<121, 105, 101, 108, 100>> }
    THEN "KeywordFunction"
    \* import export from as
    ELSE IF word \in
        { <<105, 109, 112, 111, 114, 116>>, <<101, 120, 112, 111, 114, 116>>,
          <<102, 114, 111, 109>>, <<97, 115>> }
    THEN "KeywordImport"
    \* let const var
    ELSE IF word \in
        { <<108, 101, 116>>, <<99, 111, 110, 115, 116>>, <<118, 97, 114>> }
    THEN "KeywordStorage"
    \* class interface extends implements enum type
    ELSE IF word \in
        { <<99, 108, 97, 115, 115>>,
          <<105, 110, 116, 101, 114, 102, 97, 99, 101>>,
          <<101, 120, 116, 101, 110, 100, 115>>,
          <<105, 109, 112, 108, 101, 109, 101, 110, 116, 115>>,
          <<101, 110, 117, 109>>, <<116, 121, 112, 101>> }
    THEN "KeywordType"
    \* new this super static public private protected readonly
    ELSE IF word \in
        { <<110, 101, 119>>, <<116, 104, 105, 115>>,
          <<115, 117, 112, 101, 114>>, <<115, 116, 97, 116, 105, 99>>,
          <<112, 117, 98, 108, 105, 99>>,
          <<112, 114, 105, 118, 97, 116, 101>>,
          <<112, 114, 111, 116, 101, 99, 116, 101, 100>>,
          <<114, 101, 97, 100, 111, 110, 108, 121>> }
    THEN "Keyword"
    \* true false
    ELSE IF word \in
        { <<116, 114, 117, 101>>, <<102, 97, 108, 115, 101>> }
    THEN "Boolean"
    \* null undefined
    ELSE IF word \in
        { <<110, 117, 108, 108>>,
          <<117, 110, 100, 101, 102, 105, 110, 101, 100>> }
    THEN "Null"
    ELSE "Identifier"

\* Template literal: a backslash skips two bytes without looking at the
\* second one, so the cursor can pass the end of the text.
RECURSIVE JavaScriptTemplateEnd(_, _)
JavaScriptTemplateEnd(text, pos) ==
    IF pos < Len(text)
    THEN IF At(text, pos) = Ch.bslash THEN JavaScriptTemplateEnd(text, pos + 2)
         ELSE IF At(text, pos) = Ch.btick THEN pos + 1
         ELSE JavaScriptTemplateEnd(text, pos + 1)
    ELSE pos

JavaScriptNumberEnd(text, start) ==
    LET n == Len(text)
        pos == start + 1
        second(S) == start + 1 < n /\ At(text, start) = 48
                        /\ At(text, start + 1) \in S
    IN IF second({120, 88}) THEN SkipWhile(text, pos + 1, HexDigits)
       ELSE IF second({98, 66}) THEN SkipWhile(text, pos + 1, {48, 49})
       ELSE IF second({111, 79}) THEN SkipWhile(text, pos + 1, 48..55)
       ELSE LET p1 == SkipWhile(text, pos, Digits)
                p2 == IF p1 < n /\ At(text, p1) = Ch.dot /\ p1 + 1 < n
                         /\ is_ascii_digit(At(text, p1 + 1))
                      THEN SkipWhile(text, p1 + 1, Digits) ELSE p1
                p3 == IF p2 < n /\ At(text, p2) \in {101, 69}
                      THEN LET q == p2 + 1
                               r == IF q < n /\ At(text, q) \in {Ch.plus, Ch.minus}
                                    THEN q + 1 ELSE q
                           IN SkipWhile(text, r, Digits)
                      ELSE p2
            IN p3

JavaScriptOperatorStart ==
    { Ch.plus, Ch.minus, Ch.star, Ch.slash, Ch.percent, Ch.amp, Ch.pipe,
      Ch.caret, Ch.bang, Ch.eq, Ch.lt, Ch.gt, Ch.quest, Ch.colon, Ch.tilde }

JavaScriptStep(text, pos) ==
    LET b == At(text, pos)
        start == pos
        n == Len(text)
        next(c) == And3(T3(pos + 1 < n), ByteIs(text, pos + 1, c))
    IN IF b \in WS THEN One("Whitespace", start, SkipWhile(text, pos, WS))
       ELSE If3(And3(T3(b = Ch.slash), next(Ch.slash)), pos,
                One("Comment", start, SkipUntil(text, pos + 2, {Ch.lf})),
            If3(And3(T3(b = Ch.slash), next(Ch.star)), pos,
                One("Comment", start, BlockCommentEnd(text, pos + 2)),
            IF b = Ch.btick
            THEN One("String", start, JavaScriptTemplateEnd(text, pos + 1))
            ELSE IF b \in {Ch.dq, Ch.sq}
                 THEN One("String", start, EscapedStringEnd(text, pos + 1, FALSE, b))
            ELSE IF b \in Digits
                 THEN One("Number", start, JavaScriptNumberEnd(text, start))
            ELSE IF is_ident_start(b) \/ b = Ch.dollar
                 THEN LET e == SkipWhile(text, pos, IdentContinue \cup {Ch.dollar})
                      IN One(JavaScriptWordKind(Slice(text, start, e)), start, e)
            ELSE IF b \in JavaScriptOperatorStart
                 THEN One("Operator", start,
                          SkipWhile(text, pos + 1,
                                    {Ch.eq, Ch.amp, Ch.pipe, Ch.lt, Ch.gt}))
            ELSE IF b \in {Ch.lbrace, Ch.rbrace, Ch.lbracket, Ch.rbracket,
                           Ch.lparen, Ch.rparen}
                 THEN One("Delimiter", start, pos + 1)
            ELSE IF b \in {Ch.comma, Ch.semi, Ch.dot}
                 THEN One("Punctuation", start, pos + 1)
            ELSE One("Error", start, pos + 1)))

-----------------------------------------------------------------------------
(* MarkdownLexer *)

\* A level loop that also steps over newlines.
MarkdownHashesPastLine(text, pos, level) ==
    SkipWhile(text, pos, {Ch.hash, Ch.lf})

\* while pos < len && text[pos] == '#' && level < 6 { pos += 1; level += 1 }
RECURSIVE MarkdownHashes(_, _, _)
MarkdownHashes(text, pos, level) ==
    IF pos < Len(text) /\ At(text, pos) = Ch.hash /\ level < 6
    THEN MarkdownHashes(text, pos + 1, level + 1) ELSE pos

\* while pos + 2 < len { if text[pos..pos+3] == "```" { pos += 3; break } pos += 1 }
RECURSIVE MarkdownFenceEnd(_, _)
MarkdownFenceEnd(text, pos) ==
    IF pos + 2 < Len(text)
    THEN IF At(text, pos) = Ch.btick /\ At(text, pos + 1) = Ch.btick
            /\ At(text, pos + 2) = Ch.btick
         THEN pos + 3
         ELSE MarkdownFenceEnd(text, pos + 1)
    ELSE pos

\* while pos + 1 < len { if text[pos] == c && text[pos+1] == c { pos += 2; break } pos += 1 }
RECURSIVE MarkdownDoubleEnd(_, _, _)
MarkdownDoubleEnd(text, pos, c) ==
    IF pos + 1 < Len(text)
    THEN IF At(text, pos) = c /\ At(text, pos + 1) = c
         THEN pos + 2
         ELSE MarkdownDoubleEnd(text, pos + 1, c)
    ELSE pos

\* find the closing byte c and step over it when it is there
MarkdownSingleEnd(text, pos, c) ==
    LET p == SkipUntil(text, pos, {c})
    IN IF p < Len(text) THEN p + 1 ELSE p

MarkdownLinkEnd(text, pos) ==
    LET n == Len(text)
        p1 == SkipUntil(text, pos, {Ch.rbracket})
    IN IF p1 < n
       THEN LET p2 == p1 + 1
            IN IF p2 < n /\ At(text, p2) = Ch.lparen
               THEN MarkdownSingleEnd(text, p2, Ch.rparen)
               ELSE p2
       ELSE p1

MarkdownSpecial == {Ch.hash, Ch.btick, Ch.star, Ch.under, Ch.lbracket, Ch.lf}

\* The `_` arm: a run of ordinary text; when the run is empty (the byte is a
\* newline, or a '#' that is not at a line start) the cursor moves on one
\* byte and no token is pushed.
MarkdownTextArm(text, pos) ==
    LET e == SkipUntil(text, pos, MarkdownSpecial)
    IN IF e > pos THEN One("Identifier", pos, e) ELSE Ok(pos + 1, <<>>)

MarkdownStep(text, pos) ==
    LET b == At(text, pos)
        start == pos
        n == Len(text)
        at_line_start == pos = 0 \/ (pos > 0 /\ At(text, pos - 1) = Ch.lf)
        next(c) == And3(T3(pos + 1 < n), ByteIs(text, pos + 1, c))
    IN IF b = Ch.hash /\ at_line_start
       THEN One("MarkdownHeading", start,
                SkipUntil(text, MarkdownHashes(text, pos, 0), {Ch.lf}))
       ELSE If3(And3(T3(b = Ch.btick /\ pos + 2 < n),
                     And3(ByteIs(text, pos + 1, Ch.btick),
                          ByteIs(text, pos + 2, Ch.btick))), pos,
                One("MarkdownCode", start, MarkdownFenceEnd(text, pos + 3)),
            IF b = Ch.btick
            THEN One("MarkdownCode", start, MarkdownSingleEnd(text, pos + 1, Ch.btick))
            ELSE If3(And3(T3(b = Ch.star), next(Ch.star)), pos,
                     One("MarkdownBold", start, MarkdownDoubleEnd(text, pos + 2, Ch.star)),
                 IF b = Ch.star
                 THEN One("MarkdownItalic", start, MarkdownSingleEnd(text, pos + 1, Ch.star))
                 ELSE If3(And3(T3(b = Ch.under), next(Ch.under)), pos,
                          One("MarkdownBold", start, MarkdownDoubleEnd(text, pos + 2, Ch.under)),
                      IF b = Ch.under
                      THEN One("MarkdownItalic", start,
                               MarkdownSingleEnd(text, pos + 1, Ch.under))
                      ELSE IF b = Ch.lbracket
                           THEN One("MarkdownLink", start, MarkdownLinkEnd(text, pos + 1))
                      ELSE MarkdownTextArm(text, pos))))

-----------------------------------------------------------------------------
(* HtmlLexer *)

HtmlCommentOpen == <<Ch.lt, Ch.bang, Ch.minus, Ch.minus>>
HtmlCommentClose == <<Ch.minus, Ch.minus, Ch.gt>>

\* while pos + 2 < len { if &text[pos..pos+3] == b"-->" { pos += 3; break } pos += 1 }
RECURSIVE HtmlCommentEnd(_, _)
HtmlCommentEnd(text, pos) ==
    IF pos + 2 < Len(text)
    THEN IF Slice(text, pos, pos + 3) = HtmlCommentClose
         THEN pos + 3
         ELSE HtmlCommentEnd(text, pos + 1)
    ELSE pos

\* A push without the test for an empty run.
HtmlPushAlways(kind, r, e) ==
    [pos |-> e, toks |-> Append(r.toks, Token(kind, r.pos, e))]

\* Inside a tag r is the cursor and the tokens pushed so far, [pos, toks].
\* if e > start { tokens.push(Token::new(kind, start..e)) }, the cursor at e
HtmlPush(kind, r, e) ==
    [pos |-> e,
     toks |-> IF e > r.pos THEN Append(r.toks, Token(kind, r.pos, e)) ELSE r.toks]

\* A run of whitespace pushed as one Whitespace token, if there is one.
HtmlSpace(text, r) == HtmlPush("Whitespace", r, SkipWhile(text, r.pos, WS))

\* A name that ends at one of the stops, pushed if it is not empty.
HtmlName(kind, text, r, stops) == HtmlPush(kind, r, SkipUntil(text, r.pos, stops))

\* A quoted attribute value, up to and with the closing quote if there is one.
HtmlQuoted(text, r) ==
    IF r.pos < Len(text) /\ At(text, r.pos) \in {Ch.dq, Ch.sq}
    THEN LET q == SkipUntil(text, r.pos + 1, {At(text, r.pos)})
         IN HtmlPush("String", r, IF q < Len(text) THEN q + 1 ELSE q)
    ELSE r

\* The `=` of an attribute, the whitespace after it and a quoted value.
HtmlAttrValue(text, r) ==
    IF r.pos < Len(text) /\ At(text, r.pos) = Ch.eq
    THEN HtmlQuoted(text,
             HtmlSpace(text, HtmlPush("Operator", r, r.pos + 1)))
    ELSE r

\* if pos >= len || text[pos] == '>' || (text[pos] == '/' && .. == '>') { break }
HtmlEndOfTag(text, pos) ==
    \/ pos >= Len(text)
    \/ At(text, pos) = Ch.gt
    \/ (At(text, pos) = Ch.slash /\ pos + 1 < Len(text) /\ At(text, pos + 1) = Ch.gt)

\* One attribute: its name, the whitespace after it, `=` and the value.
HtmlAttribute(text, r) ==
    HtmlAttrValue(text,
        HtmlSpace(text,
            HtmlName("PropertyName", text, r, WS \cup {Ch.eq, Ch.gt, Ch.slash})))

\* The attribute `loop` of an opening tag.  A pass that does not reach the
\* `break` and reads no attribute leaves the cursor where it is: the next
\* pass is the same pass, and the loop never ends.
RECURSIVE HtmlAttrLoop(_, _)
HtmlAttrAgain(text, r, next) ==
    IF next.pos = r.pos THEN Hang(r.pos, r.toks) ELSE HtmlAttrLoop(text, next)

HtmlAttrPass(text, r) ==
    IF HtmlEndOfTag(text, r.pos) THEN Ok(r.pos, r.toks)
    ELSE HtmlAttrAgain(text, r, HtmlAttribute(text, r))

HtmlAttrLoop(text, r) == HtmlAttrPass(text, HtmlSpace(text, r))

\* The closing `>` of a tag, if it is there.
HtmlGt(text, r) ==
    IF r.pos < Len(text) /\ At(text, r.pos) = Ch.gt
    THEN Ok(r.pos + 1, Append(r.toks, Token("Operator", r.pos, r.pos + 1)))
    ELSE Ok(r.pos, r.toks)

\* `/>` or `>` after the attributes
HtmlTagEnd(text, r) ==
    IF r.status # "ok" THEN r
    ELSE IF /\ r.pos + 1 < Len(text)
            /\ At(text, r.pos) = Ch.slash
            /\ At(text, r.pos + 1) = Ch.gt
         THEN Ok(r.pos + 2, Append(r.toks, Token("Operator", r.pos, r.pos + 2)))
    ELSE HtmlGt(text, r)

HtmlClosingTag(text, pos) ==
    HtmlGt(text,
        HtmlSpace(text,
            HtmlName("Keyword", text,
                     [pos |-> pos + 2, toks |-> <<Token("Operator", pos, pos + 2)>>],
                     WS \cup {Ch.gt})))

HtmlOpeningTag(text, pos) ==
    HtmlTagEnd(text,
        HtmlAttrLoop(text,
            HtmlName("Keyword", text,
                     [pos |-> pos + 1, toks |-> <<Token("Operator", pos, pos + 1)>>],
                     WS \cup {Ch.gt, Ch.slash})))

HtmlStep(text, pos) ==
    LET b == At(text, pos)
        start == pos
        n == Len(text)
    IN IF b \in WS THEN One("Whitespace", start, SkipWhile(text, pos, WS))
       ELSE If3(And3(T3(b = Ch.lt /\ pos + 3 < n),
                     SliceIs(text, pos, pos + 4, HtmlCommentOpen)), pos,
                One("Comment", start, HtmlCommentEnd(text, pos + 4)),
            If3(And3(T3(b = Ch.lt /\ pos + 1 < n), ByteIs(text, pos + 1, Ch.bang)), pos,
                One("Keyword", start,
                    LET p == SkipUntil(text, pos + 2, {Ch.gt})
                    IN IF p < n THEN p + 1 ELSE p),
            If3(And3(T3(b = Ch.lt /\ pos + 1 < n), ByteIs(text, pos + 1, Ch.slash)), pos,
                HtmlClosingTag(text, pos),
            IF b = Ch.lt THEN HtmlOpeningTag(text, pos)
            ELSE One("Identifier", start, SkipUntil(text, pos, {Ch.lt})))))

-----------------------------------------------------------------------------
(* CSharpLexer *)

CSharpWordKind(word) ==
    \* abstract as base bool break byte case catch char checked class const
    \* continue decimal default delegate do double else enum event explicit
    \* extern finally fixed float for foreach goto if implicit in int
    \* interface internal is lock long namespace new object operator out
    \* override params private protected public readonly ref return sbyte
    \* sealed short sizeof stackalloc static string struct switch this
    \* throw try typeof uint ulong unchecked unsafe ushort using virtual
    \* void volatile while add alias ascending async await by descending
    \* dynamic equals from get global group into join let nameof on orderby
    \* partial remove select set value var when where yield record init
    \* with nint nuint
    IF word \in
        { <<97, 98, 115, 116, 114, 97, 99, 116>>, <<97, 115>>,
          <<98, 97, 115, 101>>, <<98, 111, 111, 108>>,
          <<98, 114, 101, 97, 107>>, <<98, 121, 116, 101>>,
          <<99, 97, 115, 101>>, <<99, 97, 116, 99, 104>>,
          <<99, 104, 97, 114>>, <<99, 104, 101, 99, 107, 101, 100>>,
          <<99, 108, 97, 115, 115>>, <<99, 111, 110, 115, 116>>,
          <<99, 111, 110, 116, 105, 110, 117, 101>>,
          <<100, 101, 99, 105, 109, 97, 108>>,
          <<100, 101, 102, 97, 117, 108, 116>>,
          <<100, 101, 108, 101, 103, 97, 116, 101>>, <<100, 111>>,
          <<100, 111, 117, 98, 108, 101>>, <<101, 108, 115, 101>>,
          <<101, 110, 117, 109>>, <<101, 118, 101, 110, 116>>,
          <<101, 120, 112, 108, 105, 99, 105, 116>>,
          <<101, 120, 116, 101, 114, 110>>,
          <<102, 105, 110, 97, 108, 108, 121>>, <<102, 105, 120, 101, 100>>,
          <<102, 108, 111, 97, 116>>, <<102, 111, 114>>,
          <<102, 111, 114, 101, 97, 99, 104>>, <<103, 111, 116, 111>>,
          <<105, 102>>, <<105, 109, 112, 108, 105, 99, 105, 116>>,
          <<105, 110>>, <<105, 110, 116>>,
          <<105, 110, 116, 101, 114, 102, 97, 99, 101>>,
          <<105, 110, 116, 101, 114, 110, 97, 108>>, <<105, 115>>,
          <<108, 111, 99, 107>>, <<108, 111, 110, 103>>,
          <<110, 97, 109, 101, 115, 112, 97, 99, 101>>, <<110, 101, 119>>,
          <<111, 98, 106, 101, 99, 116>>,
          <<111, 112, 101, 114, 97, 116, 111, 114>>, <<111, 117, 116>>,
          <<111, 118, 101, 114, 114, 105, 100, 101>>,
          <<112, 97, 114, 97, 109, 115>>,
          <<112, 114, 105, 118, 97, 116, 101>>,
          <<112, 114, 111, 116, 101, 99, 116, 101, 100>>,
          <<112, 117, 98, 108, 105, 99>>,
          <<114, 101, 97, 100, 111, 110, 108, 121>>, <<114, 101, 102>>,
          <<114, 101, 116, 117, 114, 110>>, <<115, 98, 121, 116, 101>>,
          <<115, 101, 97, 108, 101, 100>>, <<115, 104, 111, 114, 116>>,
          <<115, 105, 122, 101, 111, 102>>,
          <<115, 116, 97, 99, 107, 97, 108, 108, 111, 99>>,
          <<115, 116, 97, 116, 105, 99>>, <<115, 116, 114, 105, 110, 103>>,
          <<115, 116, 114, 117, 99, 116>>, <<115, 119, 105, 116, 99, 104>>,
          <<116, 104, 105, 115>>, <<116, 104, 114, 111, 119>>,
          <<116, 114, 121>>, <<116, 121, 112, 101, 111, 102>>,
          <<117, 105, 110, 116>>, <<117, 108, 111, 110, 103>>,
          <<117, 110, 99, 104, 101, 99, 107, 101, 100>>,
          <<117, 110, 115, 97, 102, 101>>, <<117, 115, 104, 111, 114, 116>>,
          <<117, 115, 105, 110, 103>>, <<118, 105, 114, 116, 117, 97, 108>>,
          <<118, 111, 105, 100>>, <<118, 111, 108, 97, 116, 105, 108, 101>>,
          <<119, 104, 105, 108, 101>>, <<97, 100, 100>>,
          <<97, 108, 105, 97, 115>>,
          <<97, 115, 99, 101, 110, 100, 105, 110, 103>>,
          <<97, 115, 121, 110, 99>>, <<97, 119, 97, 105, 116>>, <<98, 121>>,
          <<100, 101, 115, 99, 101, 110, 100, 105, 110, 103>>,
          <<100, 121, 110, 97, 109, 105, 99>>,
          <<101, 113, 117, 97, 108, 115>>, <<102, 114, 111, 109>>,
          <<103, 101, 116>>, <<103, 108, 111, 98, 97, 108>>,
          <<103, 114, 111, 117, 112>>, <<105, 110, 116, 111>>,
          <<106, 111, 105, 110>>, <<108, 101, 116>>,
          <<110, 97, 109, 101, 111, 102>>, <<111, 110>>,
          <<111, 114, 100, 101, 114, 98, 121>>,
          <<112, 97, 114, 116, 105, 97, 108>>,
          <<114, 101, 109, 111, 118, 101>>, <<115, 101, 108, 101, 99, 116>>,
          <<115, 101, 116>>, <<118, 97, 108, 117, 101>>, <<118, 97, 114>>,
          <<119, 104, 101, 110>>, <<119, 104, 101, 114, 101>>,
          <<121, 105, 101, 108, 100>>, <<114, 101, 99, 111, 114, 100>>,
          <<105, 110, 105, 116>>, <<119, 105, 116, 104>>,
          <<110, 105, 110, 116>>, <<110, 117, 105, 110, 116>> }
    THEN "Keyword"
    \* true false null
    ELSE IF word \in
        { <<116, 114, 117, 101>>, <<102, 97, 108, 115, 101>>,
          <<110, 117, 108, 108>> }
    THEN "Boolean"
    ELSE "Identifier"

\* Verbatim string body: a doubled quote is an escaped quote.
RECURSIVE CSharpVerbatimEnd(_, _)
CSharpVerbatimEnd(text, pos) ==
    IF pos < Len(text)
    THEN IF At(text, pos) = Ch.dq
         THEN IF pos + 1 < Len(text) /\ At(text, pos + 1) = Ch.dq
              THEN CSharpVerbatimEnd(text, pos + 2)
              ELSE pos + 1
         ELSE CSharpVerbatimEnd(text, pos + 1)
    ELSE pos

\* Interpolated string body, $"..." (verbatim = FALSE) or $@"..." (TRUE).
RECURSIVE CSharpInterpolatedEnd(_, _, _, _, _)
CSharpInterpolatedEnd(text, pos, verbatim, brace_depth, escaped) ==
    LET n == Len(text)
        c == At(text, pos)
        braces ==
            IF c = Ch.lbrace
            THEN IF pos + 1 < n /\ At(text, pos + 1) = Ch.lbrace
                 THEN CSharpInterpolatedEnd(text, pos + 2, verbatim, brace_depth, escaped)
                 ELSE CSharpInterpolatedEnd(text, pos + 1, verbatim, brace_depth + 1, escaped)
            ELSE IF c = Ch.rbrace
                 THEN CSharpInterpolatedEnd(text, pos + 1, verbatim,
                          IF brace_depth > 0 THEN brace_depth - 1 ELSE brace_depth,
                          escaped)
            ELSE CSharpInterpolatedEnd(text, pos + 1, verbatim, brace_depth, escaped)
    IN IF pos >= n THEN pos
       ELSE IF verbatim
            THEN IF c = Ch.dq
                 THEN IF pos + 1 < n /\ At(text, pos + 1) = Ch.dq
                      THEN CSharpInterpolatedEnd(text, pos + 2, verbatim, brace_depth, escaped)
                      ELSE pos + 1
                 ELSE braces
       ELSE IF escaped
            THEN CSharpInterpolatedEnd(text, pos + 1, verbatim, brace_depth, FALSE)
       ELSE IF c = Ch.bslash
            THEN CSharpInterpolatedEnd(text, pos + 1, verbatim, brace_depth, TRUE)
       ELSE IF c = Ch.dq /\ brace_depth = 0 THEN pos + 1
       ELSE braces

CSharpInterpolated(text, pos) ==
    LET p1 == pos + 1
        verbatim == At(text, p1) = Ch.at
        p2 == (IF verbatim THEN p1 + 1 ELSE p1) + 1
    IN IF p1 >= Len(text) THEN Panic(pos)
       ELSE One("String", pos, CSharpInterpolatedEnd(text, p2, verbatim, 0, FALSE))

CSharpNumberEnd(text, pos) ==
    LET n == Len(text)
        b == At(text, pos)
        second(S) == b = 48 /\ pos + 1 < n /\ At(text, pos + 1) \in S
        body ==
            IF second({120, 88})
            THEN SkipWhile(text, pos + 2, HexDigits \cup {Ch.under})
            ELSE IF second({98, 66})
                 THEN SkipWhile(text, pos + 2, {48, 49, Ch.under})
            ELSE LET p1 == SkipWhile(text, pos, Digits \cup {Ch.under})
                     p2 == IF p1 < n /\ At(text, p1) = Ch.dot /\ p1 + 1 < n
                              /\ is_ascii_digit(At(text, p1 + 1))
                           THEN SkipWhile(text, p1 + 1, Digits \cup {Ch.under})
                           ELSE p1
                     p3 == IF p2 < n /\ At(text, p2) \in {101, 69}
                           THEN LET q == p2 + 1
                                    r == IF q < n /\ At(text, q) \in {Ch.plus, Ch.minus}
                                         THEN q + 1 ELSE q
                                IN SkipWhile(text, r, Digits)
                           ELSE p2
                 IN p3
    \* suffix letters f F d D m M l L u U
    IN SkipWhile(text, body, {102, 70, 100, 68, 109, 77, 108, 76, 117, 85})

CSharpOperatorStart ==
    { Ch.plus, Ch.minus, Ch.star, Ch.slash, Ch.percent, Ch.eq, Ch.bang, Ch.lt,
      Ch.gt, Ch.amp, Ch.pipe, Ch.caret, Ch.tilde, Ch.quest, Ch.colon, Ch.dot,
      Ch.comma, Ch.semi, Ch.lparen, Ch.rparen, Ch.lbrace, Ch.rbrace,
      Ch.lbracket, Ch.rbracket }

\* ++ -- += -= *= /= %= == != << >> <= >= && || &= |= ^= => ?? ?.
CSharpOperatorPairs ==
    { <<Ch.plus, Ch.plus>>, <<Ch.minus, Ch.minus>>, <<Ch.plus, Ch.eq>>,
      <<Ch.minus, Ch.eq>>, <<Ch.star, Ch.eq>>, <<Ch.slash, Ch.eq>>,
      <<Ch.percent, Ch.eq>>, <<Ch.eq, Ch.eq>>, <<Ch.bang, Ch.eq>>,
      <<Ch.lt, Ch.lt>>, <<Ch.gt, Ch.gt>>, <<Ch.lt, Ch.eq>>, <<Ch.gt, Ch.eq>>,
      <<Ch.amp, Ch.amp>>, <<Ch.pipe, Ch.pipe>>, <<Ch.amp, Ch.eq>>,
      <<Ch.pipe, Ch.eq>>, <<Ch.caret, Ch.eq>>, <<Ch.eq, Ch.gt>>,
      <<Ch.quest, Ch.quest>>, <<Ch.quest, Ch.dot>> }

\* <<= >>= ??=
CSharpOperatorTriples ==
    { <<Ch.lt, Ch.lt, Ch.eq>>, <<Ch.gt, Ch.gt, Ch.eq>>,
      <<Ch.quest, Ch.quest, Ch.eq>> }

CSharpOperatorEnd(text, start) ==
    LET n == Len(text)
        b == At(text, start)
        p1 == start + 1
    IN IF p1 < n /\ <<b, At(text, p1)>> \in CSharpOperatorPairs
       THEN LET p2 == p1 + 1
            IN IF p2 < n /\ <<b, At(text, p2 - 1), At(text, p2)>>
                               \in CSharpOperatorTriples
               THEN p2 + 1 ELSE p2
       ELSE p1

CSharpIdentEnd(text, pos) ==
    SkipWhile(text, IF At(text, pos) = Ch.at THEN pos + 1 ELSE pos, IdentContinue)

CSharpStep(text, pos) ==
    LET b == At(text, pos)
        start == pos
        n == Len(text)
        next(S) == And3(T3(pos + 1 < n), ByteIn(text, pos + 1, S))
    IN IF b \in WS THEN One("Whitespace", start, SkipWhile(text, pos, WS))
       ELSE If3(And3(T3(b = Ch.slash), next({Ch.slash})), pos,
                One("Comment", start, SkipUntil(text, pos + 2, {Ch.lf})),
            If3(And3(T3(b = Ch.slash), next({Ch.star})), pos,
                One("Comment", start, BlockCommentEnd(text, pos + 2)),
            IF b = Ch.hash
            THEN One("Macro", start, SkipUntil(text, pos + 1, {Ch.lf}))
            ELSE If3(And3(T3(b = Ch.lbracket), next(Lower \cup Upper \cup {Ch.under})), pos,
                     One("Attribute", start,
                         LET p == SkipUntil(text, pos + 1, {Ch.rbracket})
                         IN IF p < n THEN p + 1 ELSE p),
                 If3(And3(T3(b = Ch.at), next({Ch.dq})), pos,
                     One("String", start, CSharpVerbatimEnd(text, pos + 2)),
                 If3(And3(T3(b = Ch.dollar /\ pos + 1 < n),
                          Or3(ByteIs(text, pos + 1, Ch.dq),
                              And3(T3(pos + 2 < n),
                                   And3(ByteIs(text, pos + 1, Ch.at),
                                        ByteIs(text, pos + 2, Ch.dq))))), pos,
                     CSharpInterpolated(text, pos),
                 IF b = Ch.dq
                 THEN One("String", start, EscapedStringEnd(text, pos + 1, FALSE, Ch.dq))
                 ELSE IF b = Ch.sq
                      THEN One("Char", start, EscapedStringEnd(text, pos + 1, FALSE, Ch.sq))
                 ELSE IF b \in Digits
                      THEN One("Number", start, CSharpNumberEnd(text, pos))
                 ELSE IF is_ident_start(b) \/ b = Ch.at
                      THEN LET e == CSharpIdentEnd(text, pos)
                           IN One(CSharpWordKind(Slice(text, start, e)), start, e)
                 ELSE IF b \in CSharpOperatorStart
                      THEN One("Operator", start, CSharpOperatorEnd(text, start))
                 ELSE One("Error", start, pos + 1))))))

-----------------------------------------------------------------------------
(* CssLexer *)

CssWordKind(word) ==
    \* important inherit initial unset auto none normal bold italic block
    \* inline flex grid absolute relative fixed sticky left right center
    \* top bottom hidden visible scroll solid dashed dotted transparent
    \* currentColor
    IF word \in
        { <<105, 109, 112, 111, 114, 116, 97, 110, 116>>,
          <<105, 110, 104, 101, 114, 105, 116>>,
          <<105, 110, 105, 116, 105, 97, 108>>, <<117, 110, 115, 101, 116>>,
          <<97, 117, 116, 111>>, <<110, 111, 110, 101>>,
          <<110, 111, 114, 109, 97, 108>>, <<98, 111, 108, 100>>,
          <<105, 116, 97, 108, 105, 99>>, <<98, 108, 111, 99, 107>>,
          <<105, 110, 108, 105, 110, 101>>, <<102, 108, 101, 120>>,
          <<103, 114, 105, 100>>, <<97, 98, 115, 111, 108, 117, 116, 101>>,
          <<114, 101, 108, 97, 116, 105, 118, 101>>,
          <<102, 105, 120, 101, 100>>, <<115, 116, 105, 99, 107, 121>>,
          <<108, 101, 102, 116>>, <<114, 105, 103, 104, 116>>,
          <<99, 101, 110, 116, 101, 114>>, <<116, 111, 112>>,
          <<98, 111, 116, 116, 111, 109>>, <<104, 105, 100, 100, 101, 110>>,
          <<118, 105, 115, 105, 98, 108, 101>>,
          <<115, 99, 114, 111, 108, 108>>, <<115, 111, 108, 105, 100>>,
          <<100, 97, 115, 104, 101, 100>>, <<100, 111, 116, 116, 101, 100>>,
          <<116, 114, 97, 110, 115, 112, 97, 114, 101, 110, 116>>,
          <<99, 117, 114, 114, 101, 110, 116, 67, 111, 108, 111, 114>> }
    THEN "Keyword"
    ELSE "Identifier"

\* The number arm: an optional '-', digits and dots, then a unit or a '%'.
CssNumberEnd(text, start) ==
    LET n == Len(text)
        p == SkipWhile(text, IF At(text, start) = Ch.minus THEN start + 1 ELSE start,
                       Digits \cup {Ch.dot})
    IN IF p < n /\ is_ident_start(At(text, p))
       THEN SkipWhile(text, p, IdentContinue \cup {Ch.percent})
       ELSE IF p < n /\ At(text, p) = Ch.percent THEN p + 1
       ELSE p

\* An operator of one byte, or of two when the pair is in the table.
OperatorEnd(text, start, pairs) ==
    IF start + 1 < Len(text) /\ <<At(text, start), At(text, start + 1)>> \in pairs
    THEN start + 2 ELSE start + 1

CssStep(text, pos) ==
    LET b == At(text, pos)
        start == pos
        n == Len(text)
        next(S) == And3(T3(pos + 1 < n), ByteIn(text, pos + 1, S))
        \* is_ident_continue(text[pos]) || text[pos] == b'-'
        CssNameBytes == IdentContinue \cup {Ch.minus}
        CssOperatorStart ==
            { Ch.lbrace, Ch.rbrace, Ch.lparen, Ch.rparen, Ch.lbracket, Ch.rbracket,
              Ch.colon, Ch.semi, Ch.comma, Ch.gt, Ch.plus, Ch.tilde, Ch.star, Ch.eq,
              Ch.caret, Ch.dollar, Ch.pipe }
        \* ::  *=  ^=  $=  |=
        CssOperatorPairs ==
            { <<Ch.colon, Ch.colon>>, <<Ch.star, Ch.eq>>, <<Ch.caret, Ch.eq>>,
              <<Ch.dollar, Ch.eq>>, <<Ch.pipe, Ch.eq>> }
    IN IF b \in WS THEN One("Whitespace", start, SkipWhile(text, pos, WS))
       ELSE If3(And3(T3(b = Ch.slash), next({Ch.star})), pos,
                One("Comment", start, BlockCommentEnd(text, pos + 2)),
            IF b = Ch.at
            THEN One("Keyword", start, SkipWhile(text, pos + 1, CssNameBytes))
            ELSE IF b = Ch.hash
            THEN One("Number", start, SkipWhile(text, pos + 1, CssNameBytes))
            ELSE If3(And3(T3(b = Ch.dot),
                          next(Lower \cup Upper \cup {Ch.under, Ch.minus})), pos,
                     One("Keyword", start, SkipWhile(text, pos + 1, CssNameBytes)),
                 IF b \in {Ch.dq, Ch.sq}
                 THEN One("String", start, EscapedStringEnd(text, pos + 1, FALSE, b))
                 ELSE If3(And3(T3(b \in Digits \cup {Ch.minus}), next(Digits)), pos,
                          One("Number", start, CssNumberEnd(text, start)),
                      IF is_ident_start(b) \/ b = Ch.minus
                      THEN LET e == SkipWhile(text, pos, CssNameBytes)
                           IN One(CssWordKind(Slice(text, start, e)), start, e)
                      ELSE IF b \in CssOperatorStart
                      THEN One("Operator", start,
                               OperatorEnd(text, start, CssOperatorPairs))
                      \* Other characters
                      ELSE One("Operator", start, pos + 1))))

-----------------------------------------------------------------------------
(* ShellLexer *)

ShellWordKind(word) ==
    \* if then else elif fi case esac for while until do done in select
    \* time function declare typeset local readonly export unset return
    \* break continue exit shift eval exec source alias unalias test
    IF word \in
        { <<105, 102>>, <<116, 104, 101, 110>>, <<101, 108, 115, 101>>,
          <<101, 108, 105, 102>>, <<102, 105>>, <<99, 97, 115, 101>>,
          <<101, 115, 97, 99>>, <<102, 111, 114>>,
          <<119, 104, 105, 108, 101>>, <<117, 110, 116, 105, 108>>,
          <<100, 111>>, <<100, 111, 110, 101>>, <<105, 110>>,
          <<115, 101, 108, 101, 99, 116>>, <<116, 105, 109, 101>>,
          <<102, 117, 110, 99, 116, 105, 111, 110>>,
          <<100, 101, 99, 108, 97, 114, 101>>,
          <<116, 121, 112, 101, 115, 101, 116>>, <<108, 111, 99, 97, 108>>,
          <<114, 101, 97, 100, 111, 110, 108, 121>>,
          <<101, 120, 112, 111, 114, 116>>, <<117, 110, 115, 101, 116>>,
          <<114, 101, 116, 117, 114, 110>>, <<98, 114, 101, 97, 107>>,
          <<99, 111, 110, 116, 105, 110, 117, 101>>, <<101, 120, 105, 116>>,
          <<115, 104, 105, 102, 116>>, <<101, 118, 97, 108>>,
          <<101, 120, 101, 99>>, <<115, 111, 117, 114, 99, 101>>,
          <<97, 108, 105, 97, 115>>, <<117, 110, 97, 108, 105, 97, 115>>,
          <<116, 101, 115, 116>> }
    THEN "Keyword"
    \* true false
    ELSE IF word \in
        { <<116, 114, 117, 101>>, <<102, 97, 108, 115, 101>> }
    THEN "Boolean"
    \* echo printf read cd pwd pushd popd ls cat grep sed awk find sort
    \* uniq head tail cut paste tr wc chmod chown chgrp mkdir rm cp mv
    \* touch ln dirname basename tar gzip gunzip zip unzip ps top kill
    \* killall jobs bg fg man which whereis type command set shopt let wait
    \* sleep trap
    ELSE IF word \in
        { <<101, 99, 104, 111>>, <<112, 114, 105, 110, 116, 102>>,
          <<114, 101, 97, 100>>, <<99, 100>>, <<112, 119, 100>>,
          <<112, 117, 115, 104, 100>>, <<112, 111, 112, 100>>, <<108, 115>>,
          <<99, 97, 116>>, <<103, 114, 101, 112>>, <<115, 101, 100>>,
          <<97, 119, 107>>, <<102, 105, 110, 100>>, <<115, 111, 114, 116>>,
          <<117, 110, 105, 113>>, <<104, 101, 97, 100>>,
          <<116, 97, 105, 108>>, <<99, 117, 116>>,
          <<112, 97, 115, 116, 101>>, <<116, 114>>, <<119, 99>>,
          <<99, 104, 109, 111, 100>>, <<99, 104, 111, 119, 110>>,
          <<99, 104, 103, 114, 112>>, <<109, 107, 100, 105, 114>>,
          <<114, 109>>, <<99, 112>>, <<109, 118>>,
          <<116, 111, 117, 99, 104>>, <<108, 110>>,
          <<100, 105, 114, 110, 97, 109, 101>>,
          <<98, 97, 115, 101, 110, 97, 109, 101>>, <<116, 97, 114>>,
          <<103, 122, 105, 112>>, <<103, 117, 110, 122, 105, 112>>,
          <<122, 105, 112>>, <<117, 110, 122, 105, 112>>, <<112, 115>>,
          <<116, 111, 112>>, <<107, 105, 108, 108>>,
          <<107, 105, 108, 108, 97, 108, 108>>, <<106, 111, 98, 115>>,
          <<98, 103>>, <<102, 103>>, <<109, 97, 110>>,
          <<119, 104, 105, 99, 104>>, <<119, 104, 101, 114, 101, 105, 115>>,
          <<116, 121, 112, 101>>, <<99, 111, 109, 109, 97, 110, 100>>,
          <<115, 101, 116>>, <<115, 104, 111, 112, 116>>, <<108, 101, 116>>,
          <<119, 97, 105, 116>>, <<115, 108, 101, 101, 112>>,
          <<116, 114, 97, 112>> }
    THEN "FunctionName"
    ELSE "Identifier"

\* $( ... ): while pos < len && depth > 0 { '(' => depth += 1, ')' => depth -= 1 }
RECURSIVE ShellSubstEnd(_, _, _)
ShellSubstEnd(text, pos, depth) ==
    IF pos < Len(text) /\ depth > 0
    THEN ShellSubstEnd(text, pos + 1,
                       IF At(text, pos) = Ch.lparen THEN depth + 1
                       ELSE IF At(text, pos) = Ch.rparen THEN depth - 1
                       ELSE depth)
    ELSE pos

\* The end of a quoted run that has no escapes, with its closing quote.
ClosedAt(text, q) == IF q < Len(text) THEN q + 1 ELSE q

\* The `$` arm; p is the cursor after the `$`.
ShellDollar(text, start, p) ==
    LET n == Len(text)
    IN IF p < n /\ At(text, p) \in {Ch.quest, Ch.bang, Ch.dollar, Ch.at, Ch.star,
                                    Ch.hash, Ch.minus} \cup Digits
       THEN One("VariableName", start, p + 1)
       ELSE IF p < n /\ At(text, p) = Ch.lbrace
       THEN One("VariableName", start,
                ClosedAt(text, SkipUntil(text, p + 1, {Ch.rbrace})))
       ELSE IF p < n /\ At(text, p) = Ch.lparen
       THEN One("VariableName", start, ShellSubstEnd(text, p + 1, 1))
       ELSE IF p < n /\ is_ident_start(At(text, p))
       THEN One("VariableName", start, SkipWhile(text, p, IdentContinue))
       ELSE One("Operator", start, p)

ShellStep(text, pos) ==
    LET b == At(text, pos)
        start == pos
        ShellRedirectStart == {Ch.gt, Ch.lt, Ch.pipe, Ch.amp, Ch.semi}
        \* >>  <<  &&  ||  >&  <&  ;;
        ShellRedirectPairs ==
            { <<Ch.gt, Ch.gt>>, <<Ch.lt, Ch.lt>>, <<Ch.amp, Ch.amp>>, <<Ch.pipe, Ch.pipe>>,
              <<Ch.gt, Ch.amp>>, <<Ch.lt, Ch.amp>>, <<Ch.semi, Ch.semi>> }
        ShellOperatorStart ==
            { Ch.eq, Ch.plus, Ch.minus, Ch.star, Ch.slash, Ch.percent, Ch.bang, Ch.tilde,
              Ch.quest, Ch.lparen, Ch.rparen, Ch.lbrace, Ch.rbrace, Ch.lbracket,
              Ch.rbracket, Ch.comma, Ch.colon, Ch.dot }
        \* ==  !=  +=  -=  *=  /=  %=  ++  --  =~
        ShellOperatorPairs ==
            { <<Ch.eq, Ch.eq>>, <<Ch.bang, Ch.eq>>, <<Ch.plus, Ch.eq>>, <<Ch.minus, Ch.eq>>,
              <<Ch.star, Ch.eq>>, <<Ch.slash, Ch.eq>>, <<Ch.percent, Ch.eq>>,
              <<Ch.plus, Ch.plus>>, <<Ch.minus, Ch.minus>>, <<Ch.eq, Ch.tilde>> }
    IN IF b \in WS THEN One("Whitespace", start, SkipWhile(text, pos, WS))
       ELSE IF b = Ch.hash THEN One("Comment", start, SkipUntil(text, pos, {Ch.lf}))
       ELSE IF b = Ch.dollar THEN ShellDollar(text, start, pos + 1)
       ELSE IF b = Ch.sq
       THEN One("String", start, ClosedAt(text, SkipUntil(text, pos + 1, {Ch.sq})))
       ELSE IF b \in {Ch.dq, Ch.btick}
       THEN One("String", start, EscapedStringEnd(text, pos + 1, FALSE, b))
       ELSE IF b \in Digits THEN One("Number", start, SkipWhile(text, pos, Digits))
       ELSE IF b \in ShellRedirectStart
       THEN One("Operator", start, OperatorEnd(text, start, ShellRedirectPairs))
       ELSE IF b \in ShellOperatorStart
       THEN One("Operator", start, OperatorEnd(text, start, ShellOperatorPairs))
       ELSE IF is_ident_start(b)
       THEN LET e == SkipWhile(text, pos, IdentContinue \cup {Ch.minus})
            IN One(ShellWordKind(Slice(text, start, e)), start, e)
       \* Everything else
       ELSE One("Operator", start, pos + 1)

-----------------------------------------------------------------------------
(* RustLexer *)
RustWordKind(word) ==
    \* as in is
    IF word \in
        { <<97, 115>>, <<105, 110>>, <<105, 115>> }
    THEN "KeywordOperator"
    \* break continue else for if loop match return while
    ELSE IF word \in
        { <<98, 114, 101, 97, 107>>,
          <<99, 111, 110, 116, 105, 110, 117, 101>>, <<101, 108, 115, 101>>,
          <<102, 111, 114>>, <<105, 102>>, <<108, 111, 111, 112>>,
          <<109, 97, 116, 99, 104>>, <<114, 101, 116, 117, 114, 110>>,
          <<119, 104, 105, 108, 101>> }
    THEN "KeywordControl"
    \* fn async await
    ELSE IF word \in
        { <<102, 110>>, <<97, 115, 121, 110, 99>>, <<97, 119, 97, 105, 116>> }
    THEN "KeywordFunction"
    \* use mod extern crate
    ELSE IF word \in
        { <<117, 115, 101>>, <<109, 111, 100>>,
          <<101, 120, 116, 101, 114, 110>>, <<99, 114, 97, 116, 101>> }
    THEN "KeywordImport"
    \* let const static mut
    ELSE IF word \in
        { <<108, 101, 116>>, <<99, 111, 110, 115, 116>>,
          <<115, 116, 97, 116, 105, 99>>, <<109, 117, 116>> }
    THEN "KeywordStorage"
    \* struct enum union trait type impl
    ELSE IF word \in
        { <<115, 116, 114, 117, 99, 116>>, <<101, 110, 117, 109>>,
          <<117, 110, 105, 111, 110>>, <<116, 114, 97, 105, 116>>,
          <<116, 121, 112, 101>>, <<105, 109, 112, 108>> }
    THEN "KeywordType"
    \* pub priv super self Self where unsafe ref move
    ELSE IF word \in
        { <<112, 117, 98>>, <<112, 114, 105, 118>>,
          <<115, 117, 112, 101, 114>>, <<115, 101, 108, 102>>,
          <<83, 101, 108, 102>>, <<119, 104, 101, 114, 101>>,
          <<117, 110, 115, 97, 102, 101>>, <<114, 101, 102>>,
          <<109, 111, 118, 101>> }
    THEN "Keyword"
    \* true false
    ELSE IF word \in
        { <<116, 114, 117, 101>>, <<102, 97, 108, 115, 101>> }
    THEN "Boolean"
    ELSE "Identifier"

\* The nesting block-comment loop; pos is the cursor after the opening "/*".
RECURSIVE RustBlockCommentEnd(_, _, _)
RustBlockCommentEnd(text, pos, depth) ==
    IF pos + 1 < Len(text) /\ depth > 0
    THEN IF At(text, pos) = Ch.slash /\ At(text, pos + 1) = Ch.star
         THEN RustBlockCommentEnd(text, pos + 2, depth + 1)
         ELSE IF At(text, pos) = Ch.star /\ At(text, pos + 1) = Ch.slash
              THEN RustBlockCommentEnd(text, pos + 2, depth - 1)
         ELSE RustBlockCommentEnd(text, pos + 1, depth)
    ELSE pos

\* A comment arm that ends at the first "*/", as in the other scanners.
RustBlockCommentFlat(text, start) ==
    One("Comment", start, BlockCommentEnd(text, start + 2))

\* The `/*` arm: pos += 2; let mut depth = 1; the loop; and the push.
RustBlockComment(text, start) ==
    One("Comment", start, RustBlockCommentEnd(text, start + 2, 1))

\* The attribute loop; pos is the cursor at the '[' after the '#'.
RECURSIVE RustAttributeEnd(_, _, _)
RustAttributeEnd(text, pos, depth) ==
    IF pos < Len(text)
    THEN IF At(text, pos) = Ch.lbracket
         THEN RustAttributeEnd(text, pos + 1, depth + 1)
         ELSE IF At(text, pos) = Ch.rbracket
              THEN IF depth = 0 THEN pos + 1
                   ELSE RustAttributeEnd(text, pos + 1, depth - 1)
         ELSE RustAttributeEnd(text, pos + 1, depth)
    ELSE pos

\* The cursor moved over one byte of the set, when there is one.
StepIf(text, pos, S) ==
    IF pos < Len(text) /\ At(text, pos) \in S THEN pos + 1 ELSE pos

\* The number arm's decimal point: taken only before a digit.
RustFractionEnd(text, pos) ==
    IF pos + 1 < Len(text) /\ At(text, pos) = Ch.dot /\ is_ascii_digit(At(text, pos + 1))
    THEN SkipWhile(text, pos + 1, Digits \cup {Ch.under})
    ELSE pos

\* The number arm's exponent: e or E, an optional sign, digits.
RustExponentEnd(text, pos) ==
    IF pos < Len(text) /\ At(text, pos) \in {101, 69}
    THEN SkipWhile(text, StepIf(text, pos + 1, {Ch.plus, Ch.minus}),
                   Digits \cup {Ch.under})
    ELSE pos

\* Type suffix (i32, u64, f32, etc.)
RustSuffixEnd(text, pos) ==
    IF pos < Len(text) /\ is_ident_start(At(text, pos))
    THEN SkipWhile(text, pos, IdentContinue) ELSE pos

\* The number arm: a prefixed or a decimal literal, then a type suffix.
RustNumberEnd(text, start) ==
    LET second(c) == start + 1 < Len(text) /\ At(text, start) = 48
                     /\ At(text, start + 1) = c
    IN RustSuffixEnd(text,
         IF second(98) THEN SkipWhile(text, start + 2, {48, 49, Ch.under})
         ELSE IF second(111) THEN SkipWhile(text, start + 2, (48..55) \cup {Ch.under})
         ELSE IF second(120) THEN SkipWhile(text, start + 2, HexDigits \cup {Ch.under})
         ELSE RustExponentEnd(text,
                RustFractionEnd(text,
                  SkipWhile(text, start + 1, Digits \cup {Ch.under}))))

\* The character-literal arm: an optional backslash, one byte, an optional quote.
RustCharEnd(text, start) ==
    StepIf(text,
           StepIf(text,
                  IF start + 1 < Len(text) /\ At(text, start + 1) = Ch.bslash
                  THEN start + 2 ELSE start + 1,
                  0..255),
           {Ch.sq})

RustStep(text, pos) ==
    LET b == At(text, pos)
        start == pos
        next(S) == pos + 1 < Len(text) /\ At(text, pos + 1) \in S
    IN IF b \in WS THEN One("Whitespace", start, SkipWhile(text, pos, WS))
       ELSE IF b = Ch.slash /\ next({Ch.slash})
       THEN One("Comment", start, SkipUntil(text, pos + 2, {Ch.lf}))
       ELSE IF b = Ch.slash /\ next({Ch.star})
       THEN RustBlockComment(text, start)
       ELSE IF b = Ch.dq
       THEN One("String", start, EscapedStringEnd(text, pos + 1, FALSE, Ch.dq))
       \* Raw string literal
       ELSE IF b = 114 /\ next({Ch.dq})
       THEN One("String", start, ClosedAt(text, SkipUntil(text, pos + 2, {Ch.dq})))
       ELSE IF b = Ch.sq /\ next(Lower \cup Upper \cup {Ch.under})
       THEN One("RustLifetime", start, SkipWhile(text, pos + 1, IdentContinue))
       ELSE IF b = Ch.sq THEN One("Char", start, RustCharEnd(text, start))
       ELSE IF b \in Digits THEN One("Number", start, RustNumberEnd(text, start))
       ELSE IF b = Ch.hash /\ next({Ch.lbracket})
       THEN One("RustAttribute", start, RustAttributeEnd(text, pos + 1, 0))
       ELSE IF is_ident_start(b)
       THEN LET e == SkipWhile(text, pos, IdentContinue)
            IN One(RustWordKind(Slice(text, start, e)), start, e)
       ELSE IF b \in {Ch.plus, Ch.minus, Ch.star, Ch.slash, Ch.percent, Ch.amp,
                      Ch.pipe, Ch.caret, Ch.bang, Ch.eq, Ch.lt, Ch.gt}
       THEN One("Operator", start,
                IF next({Ch.eq, Ch.amp, Ch.pipe, Ch.lt, Ch.gt})
                THEN pos + 2 ELSE pos + 1)
       ELSE IF b \in {Ch.lbrace, Ch.rbrace, Ch.lbracket, Ch.rbracket,
                      Ch.lparen, Ch.rparen}
       THEN One("Delimiter", start, pos + 1)
       ELSE IF b \in {Ch.comma, Ch.semi, Ch.colon, Ch.dot}
       THEN One("Punctuation", start, pos + 1)
       \* Unknown
       ELSE One("Error", start, pos + 1)

-----------------------------------------------------------------------------
(* The scanners of C, C++, Java and Go.  Their main loops have the same     *)
(* arms for whitespace, comments, quoted literals and operators.            *)

\* The decimal point of a number and the digits after it; with strict the
\* point is taken only before a digit.
FractionEnd(text, pos, digits, strict) ==
    IF /\ pos < Len(text) /\ At(text, pos) = Ch.dot
       /\ (strict => pos + 1 < Len(text) /\ is_ascii_digit(At(text, pos + 1)))
    THEN SkipWhile(text, pos + 1, digits) ELSE pos

\* The exponent of a number: e or E, an optional sign, digits.
ExponentEnd(text, pos, digits) ==
    IF pos < Len(text) /\ At(text, pos) \in {101, 69}
    THEN SkipWhile(text, StepIf(text, pos + 1, {Ch.plus, Ch.minus}), digits)
    ELSE pos

\* b == b'0' && pos + 1 < text.len() && S.contains(text[pos + 1])
ZeroThen(text, pos, S) ==
    At(text, pos) = 48 /\ pos + 1 < Len(text) /\ At(text, pos + 1) \in S

\* The number arm before its suffix.  sep is what a digit run may hold
\* beside digits; an octal literal is a 0 and one of octal, its digits
\* starting octalSkip bytes after the 0.
NumberBody(text, start, sep, octal, octalSkip, strict, expDigits) ==
    IF ZeroThen(text, start, {120, 88})
    THEN SkipWhile(text, start + 2, HexDigits \cup sep)
    ELSE IF ZeroThen(text, start, {98, 66})
    THEN SkipWhile(text, start + 2, {48, 49} \cup sep)
    ELSE IF ZeroThen(text, start, octal)
    THEN SkipWhile(text, start + octalSkip, (48..55) \cup sep)
    ELSE ExponentEnd(text,
             FractionEnd(text, SkipWhile(text, start, Digits \cup sep),
                         Digits \cup sep, strict),
             expDigits)

\* The operator arm: one byte, a second when the pair is in the table, and
\* then a third when the triple is.
OperatorEnd3(text, start, pairs, triples) ==
    IF start + 1 < Len(text) /\ <<At(text, start), At(text, start + 1)>> \in pairs
    THEN IF /\ start + 2 < Len(text)
            /\ <<At(text, start), At(text, start + 1), At(text, start + 2)>> \in triples
         THEN start + 3 ELSE start + 2
    ELSE start + 1

\* The bytes of the operator arm of the four scanners
COperatorStart ==
    { Ch.plus, Ch.minus, Ch.star, Ch.slash, Ch.percent, Ch.eq, Ch.bang, Ch.lt,
      Ch.gt, Ch.amp, Ch.pipe, Ch.caret, Ch.tilde, Ch.quest, Ch.colon, Ch.dot,
      Ch.comma, Ch.semi, Ch.lparen, Ch.rparen, Ch.lbrace, Ch.rbrace,
      Ch.lbracket, Ch.rbracket }

\* ++ -- += -= *= /= %= == != << >> <= >= && || &= |= ^= ->
COperatorPairs ==
    { <<Ch.plus, Ch.plus>>, <<Ch.minus, Ch.minus>>, <<Ch.plus, Ch.eq>>,
      <<Ch.minus, Ch.eq>>, <<Ch.star, Ch.eq>>, <<Ch.slash, Ch.eq>>,
      <<Ch.percent, Ch.eq>>, <<Ch.eq, Ch.eq>>, <<Ch.bang, Ch.eq>>,
      <<Ch.lt, Ch.lt>>, <<Ch.gt, Ch.gt>>, <<Ch.lt, Ch.eq>>, <<Ch.gt, Ch.eq>>,
      <<Ch.amp, Ch.amp>>, <<Ch.pipe, Ch.pipe>>, <<Ch.amp, Ch.eq>>,
      <<Ch.pipe, Ch.eq>>, <<Ch.caret, Ch.eq>>, <<Ch.minus, Ch.gt>> }

\* <<= >>=
COperatorTriples == { <<Ch.lt, Ch.lt, Ch.eq>>, <<Ch.gt, Ch.gt, Ch.eq>> }

\* The arms the four scanners have in common, tried after the arms of the
\* language that come before the string literal.  wordKind is the kind the
\* language's table gives the word at pos, numberEnd and operatorEnd are
\* where its number and operator arms end.
CFamilyStep(text, pos, wordKind, numberEnd, operatorEnd) ==
    IF At(text, pos) = Ch.dq
    THEN One("String", pos, EscapedStringEnd(text, pos + 1, FALSE, Ch.dq))
    ELSE IF At(text, pos) = Ch.sq
    THEN One("Char", pos, EscapedStringEnd(text, pos + 1, FALSE, Ch.sq))
    ELSE IF At(text, pos) \in Digits THEN One("Number", pos, numberEnd)
    ELSE IF is_ident_start(At(text, pos))
    THEN One(wordKind, pos, SkipWhile(text, pos, IdentContinue))
    ELSE IF At(text, pos) \in COperatorStart
    THEN One("Operator", pos, operatorEnd)
    ELSE One("Error", pos, pos + 1)

\* Whitespace, line comment, block comment: the first three arms.  other is
\* the outcome of the remaining arms.
CFamilyLead(text, pos, other) ==
    IF At(text, pos) \in WS THEN One("Whitespace", pos, SkipWhile(text, pos, WS))
    ELSE IF At(text, pos) = Ch.slash /\ pos + 1 < Len(text)
            /\ At(text, pos + 1) = Ch.slash
    THEN One("Comment", pos, SkipUntil(text, pos + 2, {Ch.lf}))
    ELSE IF At(text, pos) = Ch.slash /\ pos + 1 < Len(text)
            /\ At(text, pos + 1) = Ch.star
    THEN One("Comment", pos, BlockCommentEnd(text, pos + 2))
    ELSE other

-----------------------------------------------------------------------------
(* CLexer *)

CWordKind(word) ==
    \* auto break case char const continue default do double else enum
    \* extern float for goto if inline int long register restrict return
    \* short signed sizeof static struct switch typedef union unsigned void
    \* volatile while _Alignas _Alignof _Atomic _Bool _Complex _Generic
    \* _Imaginary _Noreturn _Static_assert _Thread_local _BitInt typeof
    \* typeof_unqual _Decimal128 _Decimal32 _Decimal64
    IF word \in
        { <<97, 117, 116, 111>>, <<98, 114, 101, 97, 107>>,
          <<99, 97, 115, 101>>, <<99, 104, 97, 114>>,
          <<99, 111, 110, 115, 116>>,
          <<99, 111, 110, 116, 105, 110, 117, 101>>,
          <<100, 101, 102, 97, 117, 108, 116>>, <<100, 111>>,
          <<100, 111, 117, 98, 108, 101>>, <<101, 108, 115, 101>>,
          <<101, 110, 117, 109>>, <<101, 120, 116, 101, 114, 110>>,
          <<102, 108, 111, 97, 116>>, <<102, 111, 114>>,
          <<103, 111, 116, 111>>, <<105, 102>>,
          <<105, 110, 108, 105, 110, 101>>, <<105, 110, 116>>,
          <<108, 111, 110, 103>>, <<114, 101, 103, 105, 115, 116, 101, 114>>,
          <<114, 101, 115, 116, 114, 105, 99, 116>>,
          <<114, 101, 116, 117, 114, 110>>, <<115, 104, 111, 114, 116>>,
          <<115, 105, 103, 110, 101, 100>>, <<115, 105, 122, 101, 111, 102>>,
          <<115, 116, 97, 116, 105, 99>>, <<115, 116, 114, 117, 99, 116>>,
          <<115, 119, 105, 116, 99, 104>>,
          <<116, 121, 112, 101, 100, 101, 102>>, <<117, 110, 105, 111, 110>>,
          <<117, 110, 115, 105, 103, 110, 101, 100>>, <<118, 111, 105, 100>>,
          <<118, 111, 108, 97, 116, 105, 108, 101>>,
          <<119, 104, 105, 108, 101>>,
          <<95, 65, 108, 105, 103, 110, 97, 115>>,
          <<95, 65, 108, 105, 103, 110, 111, 102>>,
          <<95, 65, 116, 111, 109, 105, 99>>, <<95, 66, 111, 111, 108>>,
          <<95, 67, 111, 109, 112, 108, 101, 120>>,
          <<95, 71, 101, 110, 101, 114, 105, 99>>,
          <<95, 73, 109, 97, 103, 105, 110, 97, 114, 121>>,
          <<95, 78, 111, 114, 101, 116, 117, 114, 110>>,
          <<95, 83, 116, 97, 116, 105, 99, 95, 97, 115, 115, 101, 114, 116>>,
          <<95, 84, 104, 114, 101, 97, 100, 95, 108, 111, 99, 97, 108>>,
          <<95, 66, 105, 116, 73, 110, 116>>,
          <<116, 121, 112, 101, 111, 102>>,
          <<116, 121, 112, 101, 111, 102, 95, 117, 110, 113, 117, 97, 108>>,
          <<95, 68, 101, 99, 105, 109, 97, 108, 49, 50, 56>>,
          <<95, 68, 101, 99, 105, 109, 97, 108, 51, 50>>,
          <<95, 68, 101, 99, 105, 109, 97, 108, 54, 52>> }
    THEN "Keyword"
    \* NULL true false TRUE FALSE
    ELSE IF word \in
        { <<78, 85, 76, 76>>, <<116, 114, 117, 101>>,
          <<102, 97, 108, 115, 101>>, <<84, 82, 85, 69>>,
          <<70, 65, 76, 83, 69>> }
    THEN "Boolean"
    \* size_t ssize_t ptrdiff_t intptr_t uintptr_t int8_t int16_t int32_t
    \* int64_t uint8_t uint16_t uint32_t uint64_t FILE DIR time_t clock_t
    \* pid_t
    ELSE IF word \in
        { <<115, 105, 122, 101, 95, 116>>,
          <<115, 115, 105, 122, 101, 95, 116>>,
          <<112, 116, 114, 100, 105, 102, 102, 95, 116>>,
          <<105, 110, 116, 112, 116, 114, 95, 116>>,
          <<117, 105, 110, 116, 112, 116, 114, 95, 116>>,
          <<105, 110, 116, 56, 95, 116>>, <<105, 110, 116, 49, 54, 95, 116>>,
          <<105, 110, 116, 51, 50, 95, 116>>,
          <<105, 110, 116, 54, 52, 95, 116>>,
          <<117, 105, 110, 116, 56, 95, 116>>,
          <<117, 105, 110, 116, 49, 54, 95, 116>>,
          <<117, 105, 110, 116, 51, 50, 95, 116>>,
          <<117, 105, 110, 116, 54, 52, 95, 116>>, <<70, 73, 76, 69>>,
          <<68, 73, 82>>, <<116, 105, 109, 101, 95, 116>>,
          <<99, 108, 111, 99, 107, 95, 116>>, <<112, 105, 100, 95, 116>> }
    THEN "TypeName"
    ELSE "Identifier"

\* The preprocessor line: to the first newline that is not after a backslash.
RECURSIVE CDirectiveEnd(_, _)
CDirectiveEnd(text, pos) ==
    IF pos < Len(text)
    THEN IF At(text, pos) = Ch.lf /\ pos > 0 /\ At(text, pos - 1) # Ch.bslash
         THEN pos
         ELSE CDirectiveEnd(text, pos + 1)
    ELSE pos

\* The `#` arm of the C and C++ scanners
CDirective(text, pos) ==
    One("Macro", pos,
        CDirectiveEnd(text,
            SkipWhile(text, SkipWhile(text, pos + 1, WS), IdentContinue)))

CNumberEnd(text, start) ==
    \* Suffix (f, F, l, L, u, U, ll, LL, ul, UL, etc.)
    SkipWhile(text,
              NumberBody(text, start, {Ch.under}, 48..55, 1, FALSE, Digits),
              {102, 70, 108, 76, 117, 85})

COperatorEnd(text, start) ==
    OperatorEnd3(text, start, COperatorPairs, COperatorTriples)

CStep(text, pos) ==
    CFamilyLead(text, pos,
        IF At(text, pos) = Ch.hash THEN CDirective(text, pos)
        ELSE CFamilyStep(text, pos,
                 CWordKind(Slice(text, pos, SkipWhile(text, pos, IdentContinue))),
                 CNumberEnd(text, pos), COperatorEnd(text, pos)))

-----------------------------------------------------------------------------
(* CppLexer *)

CppWordKind(word) ==
    \* alignas alignof and and_eq asm auto bitand bitor bool break case
    \* catch char char8_t char16_t char32_t class compl concept const
    \* const_cast consteval constexpr constinit continue co_await co_return
    \* co_yield decltype default delete do double dynamic_cast else enum
    \* explicit export extern float for friend goto if inline int long
    \* mutable namespace new noexcept not not_eq operator or or_eq private
    \* protected public register reinterpret_cast requires return short
    \* signed sizeof static static_assert static_cast struct switch
    \* template this thread_local throw try typedef typeid typename union
    \* unsigned using virtual void volatile wchar_t while xor xor_eq
    IF word \in
        { <<97, 108, 105, 103, 110, 97, 115>>,
          <<97, 108, 105, 103, 110, 111, 102>>, <<97, 110, 100>>,
          <<97, 110, 100, 95, 101, 113>>, <<97, 115, 109>>,
          <<97, 117, 116, 111>>, <<98, 105, 116, 97, 110, 100>>,
          <<98, 105, 116, 111, 114>>, <<98, 111, 111, 108>>,
          <<98, 114, 101, 97, 107>>, <<99, 97, 115, 101>>,
          <<99, 97, 116, 99, 104>>, <<99, 104, 97, 114>>,
          <<99, 104, 97, 114, 56, 95, 116>>,
          <<99, 104, 97, 114, 49, 54, 95, 116>>,
          <<99, 104, 97, 114, 51, 50, 95, 116>>, <<99, 108, 97, 115, 115>>,
          <<99, 111, 109, 112, 108>>, <<99, 111, 110, 99, 101, 112, 116>>,
          <<99, 111, 110, 115, 116>>,
          <<99, 111, 110, 115, 116, 95, 99, 97, 115, 116>>,
          <<99, 111, 110, 115, 116, 101, 118, 97, 108>>,
          <<99, 111, 110, 115, 116, 101, 120, 112, 114>>,
          <<99, 111, 110, 115, 116, 105, 110, 105, 116>>,
          <<99, 111, 110, 116, 105, 110, 117, 101>>,
          <<99, 111, 95, 97, 119, 97, 105, 116>>,
          <<99, 111, 95, 114, 101, 116, 117, 114, 110>>,
          <<99, 111, 95, 121, 105, 101, 108, 100>>,
          <<100, 101, 99, 108, 116, 121, 112, 101>>,
          <<100, 101, 102, 97, 117, 108, 116>>,
          <<100, 101, 108, 101, 116, 101>>, <<100, 111>>,
          <<100, 111, 117, 98, 108, 101>>,
          <<100, 121, 110, 97, 109, 105, 99, 95, 99, 97, 115, 116>>,
          <<101, 108, 115, 101>>, <<101, 110, 117, 109>>,
          <<101, 120, 112, 108, 105, 99, 105, 116>>,
          <<101, 120, 112, 111, 114, 116>>, <<101, 120, 116, 101, 114, 110>>,
          <<102, 108, 111, 97, 116>>, <<102, 111, 114>>,
          <<102, 114, 105, 101, 110, 100>>, <<103, 111, 116, 111>>,
          <<105, 102>>, <<105, 110, 108, 105, 110, 101>>, <<105, 110, 116>>,
          <<108, 111, 110, 103>>, <<109, 117, 116, 97, 98, 108, 101>>,
          <<110, 97, 109, 101, 115, 112, 97, 99, 101>>, <<110, 101, 119>>,
          <<110, 111, 101, 120, 99, 101, 112, 116>>, <<110, 111, 116>>,
          <<110, 111, 116, 95, 101, 113>>,
          <<111, 112, 101, 114, 97, 116, 111, 114>>, <<111, 114>>,
          <<111, 114, 95, 101, 113>>, <<112, 114, 105, 118, 97, 116, 101>>,
          <<112, 114, 111, 116, 101, 99, 116, 101, 100>>,
          <<112, 117, 98, 108, 105, 99>>,
          <<114, 101, 103, 105, 115, 116, 101, 114>>,
          <<114, 101, 105, 110, 116, 101, 114, 112, 114, 101, 116, 95, 99, 97, 115, 116>>,
          <<114, 101, 113, 117, 105, 114, 101, 115>>,
          <<114, 101, 116, 117, 114, 110>>, <<115, 104, 111, 114, 116>>,
          <<115, 105, 103, 110, 101, 100>>, <<115, 105, 122, 101, 111, 102>>,
          <<115, 116, 97, 116, 105, 99>>,
          <<115, 116, 97, 116, 105, 99, 95, 97, 115, 115, 101, 114, 116>>,
          <<115, 116, 97, 116, 105, 99, 95, 99, 97, 115, 116>>,
          <<115, 116, 114, 117, 99, 116>>, <<115, 119, 105, 116, 99, 104>>,
          <<116, 101, 109, 112, 108, 97, 116, 101>>, <<116, 104, 105, 115>>,
          <<116, 104, 114, 101, 97, 100, 95, 108, 111, 99, 97, 108>>,
          <<116, 104, 114, 111, 119>>, <<116, 114, 121>>,
          <<116, 121, 112, 101, 100, 101, 102>>,
          <<116, 121, 112, 101, 105, 100>>,
          <<116, 121, 112, 101, 110, 97, 109, 101>>,
          <<117, 110, 105, 111, 110>>,
          <<117, 110, 115, 105, 103, 110, 101, 100>>,
          <<117, 115, 105, 110, 103>>, <<118, 105, 114, 116, 117, 97, 108>>,
          <<118, 111, 105, 100>>, <<118, 111, 108, 97, 116, 105, 108, 101>>,
          <<119, 99, 104, 97, 114, 95, 116>>, <<119, 104, 105, 108, 101>>,
          <<120, 111, 114>>, <<120, 111, 114, 95, 101, 113>> }
    THEN "Keyword"
    \* true false TRUE FALSE nullptr NULL
    ELSE IF word \in
        { <<116, 114, 117, 101>>, <<102, 97, 108, 115, 101>>,
          <<84, 82, 85, 69>>, <<70, 65, 76, 83, 69>>,
          <<110, 117, 108, 108, 112, 116, 114>>, <<78, 85, 76, 76>> }
    THEN "Boolean"
    \* string vector map set list deque queue stack array pair tuple
    \* optional variant any function shared_ptr unique_ptr weak_ptr size_t
    \* ptrdiff_t nullptr_t
    ELSE IF word \in
        { <<115, 116, 114, 105, 110, 103>>, <<118, 101, 99, 116, 111, 114>>,
          <<109, 97, 112>>, <<115, 101, 116>>, <<108, 105, 115, 116>>,
          <<100, 101, 113, 117, 101>>, <<113, 117, 101, 117, 101>>,
          <<115, 116, 97, 99, 107>>, <<97, 114, 114, 97, 121>>,
          <<112, 97, 105, 114>>, <<116, 117, 112, 108, 101>>,
          <<111, 112, 116, 105, 111, 110, 97, 108>>,
          <<118, 97, 114, 105, 97, 110, 116>>, <<97, 110, 121>>,
          <<102, 117, 110, 99, 116, 105, 111, 110>>,
          <<115, 104, 97, 114, 101, 100, 95, 112, 116, 114>>,
          <<117, 110, 105, 113, 117, 101, 95, 112, 116, 114>>,
          <<119, 101, 97, 107, 95, 112, 116, 114>>,
          <<115, 105, 122, 101, 95, 116>>,
          <<112, 116, 114, 100, 105, 102, 102, 95, 116>>,
          <<110, 117, 108, 108, 112, 116, 114, 95, 116>> }
    THEN "TypeName"
    ELSE "Identifier"

\* The search for the closing sequence )delimiter" of a raw string.
RECURSIVE CppRawStringEnd(_, _, _)
CppRawStringEnd(text, pos, delimiter) ==
    IF pos < Len(text)
    THEN IF /\ At(text, pos) = Ch.rparen
            /\ pos + 1 + Len(delimiter) < Len(text)
            /\ Slice(text, pos + 1, pos + 1 + Len(delimiter)) = delimiter
            /\ At(text, pos + 1 + Len(delimiter)) = Ch.dq
         THEN pos + 1 + Len(delimiter) + 1
         ELSE CppRawStringEnd(text, pos + 1, delimiter)
    ELSE pos

\* The raw-string arm; e is where the scan for the first ')' after R"(
\* stopped, and the bytes before it are taken as the delimiter.
CppRawString(text, start, e) ==
    One("String", start,
        CppRawStringEnd(text, ClosedAt(text, e), Slice(text, start + 3, e)))

CppNumberEnd(text, start) ==
    SkipWhile(text,
              NumberBody(text, start, {Ch.under, Ch.sq}, 48..55, 1, FALSE,
                         Digits \cup {Ch.sq}),
              {102, 70, 108, 76, 117, 85})

\* the pairs of C and ::  the triples of C and ->* ...
CppOperatorEnd(text, start) ==
    OperatorEnd3(text, start, COperatorPairs \cup {<<Ch.colon, Ch.colon>>},
                 COperatorTriples \cup {<<Ch.minus, Ch.gt, Ch.star>>,
                                        <<Ch.dot, Ch.dot, Ch.dot>>})

CppStep(text, pos) ==
    CFamilyLead(text, pos,
        IF At(text, pos) = Ch.hash THEN CDirective(text, pos)
        ELSE IF /\ At(text, pos) = 82 /\ pos + 2 < Len(text)
                /\ At(text, pos + 1) = Ch.dq /\ At(text, pos + 2) = Ch.lparen
        THEN CppRawString(text, pos, SkipUntil(text, pos + 3, {Ch.rparen}))
        ELSE CFamilyStep(text, pos,
                 CppWordKind(Slice(text, pos, SkipWhile(text, pos, IdentContinue))),
                 CppNumberEnd(text, pos), CppOperatorEnd(text, pos)))

-----------------------------------------------------------------------------
(* JavaLexer *)

JavaWordKind(word) ==
    \* abstract assert break case catch class const continue default do
    \* else enum extends final finally for goto if implements import
    \* instanceof interface native new package private protected public
    \* return static strictfp super switch synchronized this throw throws
    \* transient try volatile while record sealed non-sealed permits var
    \* yield
    IF word \in
        { <<97, 98, 115, 116, 114, 97, 99, 116>>,
          <<97, 115, 115, 101, 114, 116>>, <<98, 114, 101, 97, 107>>,
          <<99, 97, 115, 101>>, <<99, 97, 116, 99, 104>>,
          <<99, 108, 97, 115, 115>>, <<99, 111, 110, 115, 116>>,
          <<99, 111, 110, 116, 105, 110, 117, 101>>,
          <<100, 101, 102, 97, 117, 108, 116>>, <<100, 111>>,
          <<101, 108, 115, 101>>, <<101, 110, 117, 109>>,
          <<101, 120, 116, 101, 110, 100, 115>>, <<102, 105, 110, 97, 108>>,
          <<102, 105, 110, 97, 108, 108, 121>>, <<102, 111, 114>>,
          <<103, 111, 116, 111>>, <<105, 102>>,
          <<105, 109, 112, 108, 101, 109, 101, 110, 116, 115>>,
          <<105, 109, 112, 111, 114, 116>>,
          <<105, 110, 115, 116, 97, 110, 99, 101, 111, 102>>,
          <<105, 110, 116, 101, 114, 102, 97, 99, 101>>,
          <<110, 97, 116, 105, 118, 101>>, <<110, 101, 119>>,
          <<112, 97, 99, 107, 97, 103, 101>>,
          <<112, 114, 105, 118, 97, 116, 101>>,
          <<112, 114, 111, 116, 101, 99, 116, 101, 100>>,
          <<112, 117, 98, 108, 105, 99>>, <<114, 101, 116, 117, 114, 110>>,
          <<115, 116, 97, 116, 105, 99>>,
          <<115, 116, 114, 105, 99, 116, 102, 112>>,
          <<115, 117, 112, 101, 114>>, <<115, 119, 105, 116, 99, 104>>,
          <<115, 121, 110, 99, 104, 114, 111, 110, 105, 122, 101, 100>>,
          <<116, 104, 105, 115>>, <<116, 104, 114, 111, 119>>,
          <<116, 104, 114, 111, 119, 115>>,
          <<116, 114, 97, 110, 115, 105, 101, 110, 116>>, <<116, 114, 121>>,
          <<118, 111, 108, 97, 116, 105, 108, 101>>,
          <<119, 104, 105, 108, 101>>, <<114, 101, 99, 111, 114, 100>>,
          <<115, 101, 97, 108, 101, 100>>,
          <<110, 111, 110, 45, 115, 101, 97, 108, 101, 100>>,
          <<112, 101, 114, 109, 105, 116, 115>>, <<118, 97, 114>>,
          <<121, 105, 101, 108, 100>> }
    THEN "Keyword"
    \* boolean byte char short int long float double void
    ELSE IF word \in
        { <<98, 111, 111, 108, 101, 97, 110>>, <<98, 121, 116, 101>>,
          <<99, 104, 97, 114>>, <<115, 104, 111, 114, 116>>,
          <<105, 110, 116>>, <<108, 111, 110, 103>>,
          <<102, 108, 111, 97, 116>>, <<100, 111, 117, 98, 108, 101>>,
          <<118, 111, 105, 100>> }
    THEN "TypeName"
    \* true false null
    ELSE IF word \in
        { <<116, 114, 117, 101>>, <<102, 97, 108, 115, 101>>,
          <<110, 117, 108, 108>> }
    THEN "Boolean"
    ELSE "Identifier"

\* while pos + 2 < len { if text[pos..pos+3] is three quotes { pos += 3; break }
\*                       pos += 1 }
RECURSIVE TripleQuoteEnd(_, _, _)
TripleQuoteEnd(text, pos, quote) ==
    IF pos + 2 < Len(text)
    THEN IF Slice(text, pos, pos + 3) = <<quote, quote, quote>>
         THEN pos + 3
         ELSE TripleQuoteEnd(text, pos + 1, quote)
    ELSE pos

JavaNumberEnd(text, start) ==
    \* Suffix (f, F, d, D, l, L)
    StepIf(text,
           NumberBody(text, start, {Ch.under}, 48..55, 1, TRUE,
                      Digits \cup {Ch.under}),
           {102, 70, 100, 68, 108, 76})

\* the pairs of C and ::  the triples of C and >>>
JavaOperatorBody(text, start) ==
    OperatorEnd3(text, start, COperatorPairs \cup {<<Ch.colon, Ch.colon>>},
                 COperatorTriples \cup {<<Ch.gt, Ch.gt, Ch.gt>>})

\* after a triple, one more '=' (>>>=)
JavaOperatorEnd(text, start) ==
    StepIf(text, JavaOperatorBody(text, start),
           IF JavaOperatorBody(text, start) = start + 3 THEN {Ch.eq} ELSE {})

JavaStep(text, pos) ==
    CFamilyLead(text, pos,
        IF At(text, pos) = Ch.at
        THEN One("Attribute", pos, SkipWhile(text, pos + 1, IdentContinue))
        ELSE IF /\ At(text, pos) = Ch.dq /\ pos + 2 < Len(text)
                /\ At(text, pos + 1) = Ch.dq /\ At(text, pos + 2) = Ch.dq
        THEN One("String", pos, TripleQuoteEnd(text, pos + 3, Ch.dq))
        ELSE CFamilyStep(text, pos,
                 JavaWordKind(Slice(text, pos, SkipWhile(text, pos, IdentContinue))),
                 JavaNumberEnd(text, pos), JavaOperatorEnd(text, pos)))

-----------------------------------------------------------------------------
(* GoLexer *)

GoWordKind(word) ==
    \* break case chan const continue default defer else fallthrough for
    \* func go goto if import interface map package range return select
    \* struct switch type var iota
    IF word \in
        { <<98, 114, 101, 97, 107>>, <<99, 97, 115, 101>>,
          <<99, 104, 97, 110>>, <<99, 111, 110, 115, 116>>,
          <<99, 111, 110, 116, 105, 110, 117, 101>>,
          <<100, 101, 102, 97, 117, 108, 116>>, <<100, 101, 102, 101, 114>>,
          <<101, 108, 115, 101>>,
          <<102, 97, 108, 108, 116, 104, 114, 111, 117, 103, 104>>,
          <<102, 111, 114>>, <<102, 117, 110, 99>>, <<103, 111>>,
          <<103, 111, 116, 111>>, <<105, 102>>,
          <<105, 109, 112, 111, 114, 116>>,
          <<105, 110, 116, 101, 114, 102, 97, 99, 101>>, <<109, 97, 112>>,
          <<112, 97, 99, 107, 97, 103, 101>>, <<114, 97, 110, 103, 101>>,
          <<114, 101, 116, 117, 114, 110>>, <<115, 101, 108, 101, 99, 116>>,
          <<115, 116, 114, 117, 99, 116>>, <<115, 119, 105, 116, 99, 104>>,
          <<116, 121, 112, 101>>, <<118, 97, 114>>, <<105, 111, 116, 97>> }
    THEN "Keyword"
    \* true false nil
    ELSE IF word \in
        { <<116, 114, 117, 101>>, <<102, 97, 108, 115, 101>>,
          <<110, 105, 108>> }
    THEN "Boolean"
    \* bool byte complex64 complex128 error float32 float64 int int8 int16
    \* int32 int64 rune string uint uint8 uint16 uint32 uint64 uintptr
    ELSE IF word \in
        { <<98, 111, 111, 108>>, <<98, 121, 116, 101>>,
          <<99, 111, 109, 112, 108, 101, 120, 54, 52>>,
          <<99, 111, 109, 112, 108, 101, 120, 49, 50, 56>>,
          <<101, 114, 114, 111, 114>>, <<102, 108, 111, 97, 116, 51, 50>>,
          <<102, 108, 111, 97, 116, 54, 52>>, <<105, 110, 116>>,
          <<105, 110, 116, 56>>, <<105, 110, 116, 49, 54>>,
          <<105, 110, 116, 51, 50>>, <<105, 110, 116, 54, 52>>,
          <<114, 117, 110, 101>>, <<115, 116, 114, 105, 110, 103>>,
          <<117, 105, 110, 116>>, <<117, 105, 110, 116, 56>>,
          <<117, 105, 110, 116, 49, 54>>, <<117, 105, 110, 116, 51, 50>>,
          <<117, 105, 110, 116, 54, 52>>,
          <<117, 105, 110, 116, 112, 116, 114>> }
    THEN "TypeName"
    \* append cap close complex copy delete imag len make new panic print
    \* println real recover
    ELSE IF word \in
        { <<97, 112, 112, 101, 110, 100>>, <<99, 97, 112>>,
          <<99, 108, 111, 115, 101>>, <<99, 111, 109, 112, 108, 101, 120>>,
          <<99, 111, 112, 121>>, <<100, 101, 108, 101, 116, 101>>,
          <<105, 109, 97, 103>>, <<108, 101, 110>>, <<109, 97, 107, 101>>,
          <<110, 101, 119>>, <<112, 97, 110, 105, 99>>,
          <<112, 114, 105, 110, 116>>, <<112, 114, 105, 110, 116, 108, 110>>,
          <<114, 101, 97, 108>>, <<114, 101, 99, 111, 118, 101, 114>> }
    THEN "FunctionName"
    ELSE "Identifier"

GoNumberEnd(text, start) ==
    \* Imaginary suffix (i)
    StepIf(text,
           NumberBody(text, start, {Ch.under}, {111, 79}, 2, TRUE,
                      Digits \cup {Ch.under}),
           {105})

\* the pairs of C without ->, and <- := ..   the triples of C and ... &^=
GoOperatorEnd(text, start) ==
    OperatorEnd3(text, start,
                 (COperatorPairs \ {<<Ch.minus, Ch.gt>>})
                     \cup {<<Ch.lt, Ch.minus>>, <<Ch.colon, Ch.eq>>, <<Ch.dot, Ch.dot>>},
                 COperatorTriples \cup {<<Ch.dot, Ch.dot, Ch.dot>>,
                                        <<Ch.amp, Ch.caret, Ch.eq>>})

GoStep(text, pos) ==
    CFamilyLead(text, pos,
        IF At(text, pos) = Ch.btick
        THEN One("String", pos, ClosedAt(text, SkipUntil(text, pos + 1, {Ch.btick})))
        ELSE CFamilyStep(text, pos,
                 GoWordKind(Slice(text, pos, SkipWhile(text, pos, IdentContinue))),
                 GoNumberEnd(text, pos), GoOperatorEnd(text, pos)))

-----------------------------------------------------------------------------
(* PythonLexer *)

PythonWordKind(word) ==
    \* and or not in is
    IF word \in
        { <<97, 110, 100>>, <<111, 114>>, <<110, 111, 116>>, <<105, 110>>,
          <<105, 115>> }
    THEN "KeywordOperator"
    \* if elif else for while break continue return yield pass match case
    ELSE IF word \in
        { <<105, 102>>, <<101, 108, 105, 102>>, <<101, 108, 115, 101>>,
          <<102, 111, 114>>, <<119, 104, 105, 108, 101>>,
          <<98, 114, 101, 97, 107>>,
          <<99, 111, 110, 116, 105, 110, 117, 101>>,
          <<114, 101, 116, 117, 114, 110>>, <<121, 105, 101, 108, 100>>,
          <<112, 97, 115, 115>>, <<109, 97, 116, 99, 104>>,
          <<99, 97, 115, 101>> }
    THEN "KeywordControl"
    \* def lambda async await
    ELSE IF word \in
        { <<100, 101, 102>>, <<108, 97, 109, 98, 100, 97>>,
          <<97, 115, 121, 110, 99>>, <<97, 119, 97, 105, 116>> }
    THEN "KeywordFunction"
    \* import from as
    ELSE IF word \in
        { <<105, 109, 112, 111, 114, 116>>, <<102, 114, 111, 109>>,
          <<97, 115>> }
    THEN "KeywordImport"
    \* class
    ELSE IF word \in
        { <<99, 108, 97, 115, 115>> }
    THEN "KeywordType"
    \* global nonlocal del
    ELSE IF word \in
        { <<103, 108, 111, 98, 97, 108>>,
          <<110, 111, 110, 108, 111, 99, 97, 108>>, <<100, 101, 108>> }
    THEN "KeywordStorage"
    \* try except finally raise assert with
    ELSE IF word \in
        { <<116, 114, 121>>, <<101, 120, 99, 101, 112, 116>>,
          <<102, 105, 110, 97, 108, 108, 121>>, <<114, 97, 105, 115, 101>>,
          <<97, 115, 115, 101, 114, 116>>, <<119, 105, 116, 104>> }
    THEN "Keyword"
    \* True False
    ELSE IF word \in
        { <<84, 114, 117, 101>>, <<70, 97, 108, 115, 101>> }
    THEN "Boolean"
    \* None
    ELSE IF word \in
        { <<78, 111, 110, 101>> }
    THEN "Null"
    ELSE "Identifier"

\* The loop of a single-line string: to the closing quote, which it takes,
\* or to a newline, which it leaves; a byte after a backslash is skipped.
RECURSIVE LineStringEnd(_, _, _, _)
LineStringEnd(text, pos, escaped, quote) ==
    IF pos < Len(text)
    THEN IF escaped THEN LineStringEnd(text, pos + 1, FALSE, quote)
         ELSE IF At(text, pos) = Ch.bslash THEN LineStringEnd(text, pos + 1, TRUE, quote)
         ELSE IF At(text, pos) = quote THEN pos + 1
         ELSE IF At(text, pos) = Ch.lf THEN pos
         ELSE LineStringEnd(text, pos + 1, FALSE, quote)
    ELSE pos

\* Mutation of QuotedStringEnd: a single-line string is not ended by a
\* newline.
QuotedStringEndPastNewline(text, pos, quote) ==
    IF pos + 1 < Len(text) /\ At(text, pos) = quote /\ At(text, pos + 1) = quote
    THEN TripleQuoteEnd(text, pos + 2, quote)
    ELSE EscapedStringEnd(text, pos, FALSE, quote)

\* The string arm of the Python and TOML scanners; pos is after the quote.
QuotedStringEnd(text, pos, quote) ==
    IF pos + 1 < Len(text) /\ At(text, pos) = quote /\ At(text, pos + 1) = quote
    THEN TripleQuoteEnd(text, pos + 2, quote)
    ELSE LineStringEnd(text, pos, FALSE, quote)

PythonNumberEnd(text, start) ==
    NumberBody(text, start, {Ch.under}, {111, 79}, 2, TRUE, Digits \cup {Ch.under})

PythonStep(text, pos) ==
    IF At(text, pos) \in {Ch.sp, Ch.tab, Ch.cr}
    THEN One("Whitespace", pos, SkipWhile(text, pos, {Ch.sp, Ch.tab, Ch.cr}))
    \* Newline (significant in Python)
    ELSE IF At(text, pos) = Ch.lf THEN One("Whitespace", pos, pos + 1)
    ELSE IF At(text, pos) = Ch.hash
    THEN One("Comment", pos, SkipUntil(text, pos + 1, {Ch.lf}))
    ELSE IF At(text, pos) \in {Ch.dq, Ch.sq}
    THEN One("String", pos, QuotedStringEnd(text, pos + 1, At(text, pos)))
    \* F-strings
    ELSE IF /\ At(text, pos) \in {102, 70} /\ pos + 1 < Len(text)
            /\ At(text, pos + 1) \in {Ch.dq, Ch.sq}
    THEN One("String", pos,
             EscapedStringEnd(text, pos + 2, FALSE, At(text, pos + 1)))
    ELSE IF At(text, pos) \in Digits THEN One("Number", pos, PythonNumberEnd(text, pos))
    ELSE IF is_ident_start(At(text, pos))
    THEN One(PythonWordKind(Slice(text, pos, SkipWhile(text, pos, IdentContinue))),
             pos, SkipWhile(text, pos, IdentContinue))
    \* Decorators
    ELSE IF /\ At(text, pos) = Ch.at /\ pos + 1 < Len(text)
            /\ is_ident_start(At(text, pos + 1))
    THEN One("Attribute", pos, SkipWhile(text, pos + 1, IdentContinue \cup {Ch.dot}))
    ELSE IF At(text, pos) \in { Ch.plus, Ch.minus, Ch.star, Ch.slash, Ch.percent,
                               Ch.amp, Ch.pipe, Ch.caret, Ch.tilde, Ch.bang,
                               Ch.eq, Ch.lt, Ch.gt }
    THEN One("Operator", pos,
             StepIf(text, pos + 1, {Ch.eq, Ch.star, Ch.slash, Ch.lt, Ch.gt}))
    ELSE IF At(text, pos) \in {Ch.lbrace, Ch.rbrace, Ch.lbracket, Ch.rbracket,
                               Ch.lparen, Ch.rparen}
    THEN One("Delimiter", pos, pos + 1)
    ELSE IF At(text, pos) \in {Ch.comma, Ch.semi, Ch.colon, Ch.dot}
    THEN One("Punctuation", pos, pos + 1)
    ELSE One("Error", pos, pos + 1)

-----------------------------------------------------------------------------
(* TomlLexer *)

\* Section headers [section] or [[array]]; q is where the search for ']'
\* stopped.
TomlHeader(text, start, q, is_array) ==
    One("KeywordType", start,
        IF q < Len(text)
        THEN IF is_array THEN StepIf(text, q + 1, {Ch.rbracket}) ELSE q + 1
        ELSE q)

\* Numbers (integers and floats), with an optional sign
TomlNumberEnd(text, start) ==
    ExponentEnd(text,
        FractionEnd(text,
            SkipWhile(text, StepIf(text, start, {Ch.plus, Ch.minus}),
                      Digits \cup {Ch.under}),
            Digits \cup {Ch.under}, FALSE),
        Digits \cup {Ch.under})

\* pos + Len(word) <= text.len() && &text[pos..pos + Len(word)] == word
StartsWith(text, pos, word) ==
    pos + Len(word) <= Len(text) /\ Slice(text, pos, pos + Len(word)) = word

TomlStep(text, pos) ==
    IF At(text, pos) \in WS THEN One("Whitespace", pos, SkipWhile(text, pos, WS))
    ELSE IF At(text, pos) = Ch.hash
    THEN One("Comment", pos, SkipUntil(text, pos, {Ch.lf}))
    ELSE IF At(text, pos) = Ch.lbracket
    THEN TomlHeader(text, pos,
                    SkipUntil(text, StepIf(text, pos + 1, {Ch.lbracket}), {Ch.rbracket}),
                    pos + 1 < Len(text) /\ At(text, pos + 1) = Ch.lbracket)
    ELSE IF At(text, pos) \in {Ch.dq, Ch.sq}
    THEN One("String", pos, QuotedStringEnd(text, pos + 1, At(text, pos)))
    ELSE IF \/ /\ At(text, pos) \in {Ch.plus, Ch.minus} /\ pos + 1 < Len(text)
               /\ is_ascii_digit(At(text, pos + 1))
            \/ is_ascii_digit(At(text, pos))
    THEN One("Number", pos, TomlNumberEnd(text, pos))
    \* Keywords (true, false)
    ELSE IF StartsWith(text, pos, <<116, 114, 117, 101>>)
    THEN One("Boolean", pos, pos + 4)
    ELSE IF StartsWith(text, pos, <<102, 97, 108, 115, 101>>)
    THEN One("Boolean", pos, pos + 5)
    \* Keys (identifiers)
    ELSE IF is_ident_start(At(text, pos))
    THEN One("Identifier", pos, SkipWhile(text, pos, IdentContinue \cup {Ch.minus}))
    ELSE IF At(text, pos) = Ch.eq THEN One("Operator", pos, pos + 1)
    ELSE IF At(text, pos) \in {Ch.dot, Ch.comma} THEN One("Punctuation", pos, pos + 1)
    ELSE IF At(text, pos) \in {Ch.lbrace, Ch.rbrace} THEN One("Delimiter", pos, pos + 1)
    ELSE One("Error", pos, pos + 1)

-----------------------------------------------------------------------------
(* YamlLexer *)

YamlNumberEnd(text, start) ==
    ExponentEnd(text,
        FractionEnd(text,
            SkipWhile(text, StepIf(text, start, {Ch.plus, Ch.minus}),
                      Digits \cup {Ch.under}),
            Digits \cup {Ch.under}, FALSE),
        Digits)

\* b == c && pos + 2 < text.len() && text[pos + 1] == c && text[pos + 2] == c
YamlMarker(text, pos, c) ==
    /\ At(text, pos) = c /\ pos + 2 < Len(text)
    /\ At(text, pos + 1) = c /\ At(text, pos + 2) = c

YamlStep(text, pos) ==
    IF At(text, pos) \in {Ch.sp, Ch.tab, Ch.cr}
    THEN One("Whitespace", pos, SkipWhile(text, pos, {Ch.sp, Ch.tab, Ch.cr}))
    \* Newline (significant in YAML)
    ELSE IF At(text, pos) = Ch.lf THEN One("Whitespace", pos, pos + 1)
    ELSE IF At(text, pos) = Ch.hash
    THEN One("Comment", pos, SkipUntil(text, pos, {Ch.lf}))
    \* Document markers (--- and ...)
    ELSE IF YamlMarker(text, pos, Ch.minus) \/ YamlMarker(text, pos, Ch.dot)
    THEN One("Keyword", pos, pos + 3)
    ELSE IF At(text, pos) \in {Ch.dq, Ch.sq}
    THEN One("String", pos, EscapedStringEnd(text, pos + 1, FALSE, At(text, pos)))
    ELSE IF \/ /\ At(text, pos) \in {Ch.plus, Ch.minus} /\ pos + 1 < Len(text)
               /\ is_ascii_digit(At(text, pos + 1))
            \/ is_ascii_digit(At(text, pos))
    THEN One("Number", pos, YamlNumberEnd(text, pos))
    \* Special values
    ELSE IF StartsWith(text, pos, <<116, 114, 117, 101>>)
    THEN One("Boolean", pos, pos + 4)
    ELSE IF StartsWith(text, pos, <<102, 97, 108, 115, 101>>)
    THEN One("Boolean", pos, pos + 5)
    ELSE IF StartsWith(text, pos, <<110, 117, 108, 108>>)
    THEN One("Null", pos, pos + 4)
    ELSE IF At(text, pos) = Ch.tilde THEN One("Null", pos, pos + 1)
    \* List item marker
    ELSE IF /\ At(text, pos) = Ch.minus /\ pos + 1 < Len(text)
            /\ At(text, pos + 1) \in {Ch.sp, Ch.lf}
    THEN One("Operator", pos, pos + 1)
    \* Anchors and aliases
    ELSE IF At(text, pos) \in {Ch.amp, Ch.star}
    THEN One("Label", pos, SkipWhile(text, pos + 1, IdentContinue \cup {Ch.minus}))
    \* Tags
    ELSE IF At(text, pos) = Ch.bang
    THEN One("Attribute", pos, SkipUntil(text, pos + 1, {Ch.sp, Ch.lf, Ch.tab}))
    \* Keys and unquoted strings
    ELSE IF is_ident_start(At(text, pos))
    THEN One("Identifier", pos, SkipWhile(text, pos, IdentContinue \cup {Ch.minus}))
    ELSE IF At(text, pos) \in {Ch.colon, Ch.comma} THEN One("Punctuation", pos, pos + 1)
    ELSE IF At(text, pos) \in {Ch.lbracket, Ch.rbracket, Ch.lbrace, Ch.rbrace}
    THEN One("Delimiter", pos, pos + 1)
    \* Pipe and fold markers
    ELSE IF At(text, pos) \in {Ch.pipe, Ch.gt} THEN One("Operator", pos, pos + 1)
    ELSE One("Error", pos, pos + 1)

-----------------------------------------------------------------------------
(* SqlLexer *)

SqlWordKind(word) ==
    \* CREATE ALTER DROP TRUNCATE RENAME TABLE VIEW INDEX DATABASE SCHEMA
    \* PROCEDURE FUNCTION TRIGGER SEQUENCE SELECT INSERT UPDATE DELETE
    \* MERGE FROM WHERE JOIN INNER LEFT RIGHT FULL CROSS ON USING GROUP
    \* HAVING ORDER BY LIMIT OFFSET FETCH TOP UNION INTERSECT EXCEPT MINUS
    \* INTO VALUES SET GRANT REVOKE DENY COMMIT ROLLBACK SAVEPOINT BEGIN
    \* END TRANSACTION START PRIMARY FOREIGN KEY UNIQUE CHECK DEFAULT NOT
    \* NULL CONSTRAINT REFERENCES AS DISTINCT ALL ANY SOME EXISTS IN
    \* BETWEEN LIKE IS AND OR CASE WHEN THEN ELSE IF WHILE LOOP REPEAT GOTO
    \* RETURN DECLARE CURSOR OPEN CLOSE WITH RECURSIVE OVER PARTITION
    \* WINDOW ROWS RANGE PRECEDING FOLLOWING CURRENT ROW UNBOUNDED
    IF word \in
        { <<67, 82, 69, 65, 84, 69>>, <<65, 76, 84, 69, 82>>,
          <<68, 82, 79, 80>>, <<84, 82, 85, 78, 67, 65, 84, 69>>,
          <<82, 69, 78, 65, 77, 69>>, <<84, 65, 66, 76, 69>>,
          <<86, 73, 69, 87>>, <<73, 78, 68, 69, 88>>,
          <<68, 65, 84, 65, 66, 65, 83, 69>>, <<83, 67, 72, 69, 77, 65>>,
          <<80, 82, 79, 67, 69, 68, 85, 82, 69>>,
          <<70, 85, 78, 67, 84, 73, 79, 78>>, <<84, 82, 73, 71, 71, 69, 82>>,
          <<83, 69, 81, 85, 69, 78, 67, 69>>, <<83, 69, 76, 69, 67, 84>>,
          <<73, 78, 83, 69, 82, 84>>, <<85, 80, 68, 65, 84, 69>>,
          <<68, 69, 76, 69, 84, 69>>, <<77, 69, 82, 71, 69>>,
          <<70, 82, 79, 77>>, <<87, 72, 69, 82, 69>>, <<74, 79, 73, 78>>,
          <<73, 78, 78, 69, 82>>, <<76, 69, 70, 84>>, <<82, 73, 71, 72, 84>>,
          <<70, 85, 76, 76>>, <<67, 82, 79, 83, 83>>, <<79, 78>>,
          <<85, 83, 73, 78, 71>>, <<71, 82, 79, 85, 80>>,
          <<72, 65, 86, 73, 78, 71>>, <<79, 82, 68, 69, 82>>, <<66, 89>>,
          <<76, 73, 77, 73, 84>>, <<79, 70, 70, 83, 69, 84>>,
          <<70, 69, 84, 67, 72>>, <<84, 79, 80>>, <<85, 78, 73, 79, 78>>,
          <<73, 78, 84, 69, 82, 83, 69, 67, 84>>, <<69, 88, 67, 69, 80, 84>>,
          <<77, 73, 78, 85, 83>>, <<73, 78, 84, 79>>,
          <<86, 65, 76, 85, 69, 83>>, <<83, 69, 84>>, <<71, 82, 65, 78, 84>>,
          <<82, 69, 86, 79, 75, 69>>, <<68, 69, 78, 89>>,
          <<67, 79, 77, 77, 73, 84>>, <<82, 79, 76, 76, 66, 65, 67, 75>>,
          <<83, 65, 86, 69, 80, 79, 73, 78, 84>>, <<66, 69, 71, 73, 78>>,
          <<69, 78, 68>>, <<84, 82, 65, 78, 83, 65, 67, 84, 73, 79, 78>>,
          <<83, 84, 65, 82, 84>>, <<80, 82, 73, 77, 65, 82, 89>>,
          <<70, 79, 82, 69, 73, 71, 78>>, <<75, 69, 89>>,
          <<85, 78, 73, 81, 85, 69>>, <<67, 72, 69, 67, 75>>,
          <<68, 69, 70, 65, 85, 76, 84>>, <<78, 79, 84>>, <<78, 85, 76, 76>>,
          <<67, 79, 78, 83, 84, 82, 65, 73, 78, 84>>,
          <<82, 69, 70, 69, 82, 69, 78, 67, 69, 83>>, <<65, 83>>,
          <<68, 73, 83, 84, 73, 78, 67, 84>>, <<65, 76, 76>>, <<65, 78, 89>>,
          <<83, 79, 77, 69>>, <<69, 88, 73, 83, 84, 83>>, <<73, 78>>,
          <<66, 69, 84, 87, 69, 69, 78>>, <<76, 73, 75, 69>>, <<73, 83>>,
          <<65, 78, 68>>, <<79, 82>>, <<67, 65, 83, 69>>, <<87, 72, 69, 78>>,
          <<84, 72, 69, 78>>, <<69, 76, 83, 69>>, <<73, 70>>,
          <<87, 72, 73, 76, 69>>, <<76, 79, 79, 80>>,
          <<82, 69, 80, 69, 65, 84>>, <<71, 79, 84, 79>>,
          <<82, 69, 84, 85, 82, 78>>, <<68, 69, 67, 76, 65, 82, 69>>,
          <<67, 85, 82, 83, 79, 82>>, <<79, 80, 69, 78>>,
          <<67, 76, 79, 83, 69>>, <<87, 73, 84, 72>>,
          <<82, 69, 67, 85, 82, 83, 73, 86, 69>>, <<79, 86, 69, 82>>,
          <<80, 65, 82, 84, 73, 84, 73, 79, 78>>, <<87, 73, 78, 68, 79, 87>>,
          <<82, 79, 87, 83>>, <<82, 65, 78, 71, 69>>,
          <<80, 82, 69, 67, 69, 68, 73, 78, 71>>,
          <<70, 79, 76, 76, 79, 87, 73, 78, 71>>,
          <<67, 85, 82, 82, 69, 78, 84>>, <<82, 79, 87>>,
          <<85, 78, 66, 79, 85, 78, 68, 69, 68>> }
    THEN "Keyword"
    \* INT INTEGER BIGINT SMALLINT TINYINT DECIMAL NUMERIC FLOAT REAL
    \* DOUBLE CHAR VARCHAR TEXT NCHAR NVARCHAR NTEXT DATE TIME DATETIME
    \* TIMESTAMP YEAR BOOLEAN BOOL BIT BLOB CLOB BINARY VARBINARY JSON XML
    \* UUID SERIAL AUTO_INCREMENT
    ELSE IF word \in
        { <<73, 78, 84>>, <<73, 78, 84, 69, 71, 69, 82>>,
          <<66, 73, 71, 73, 78, 84>>, <<83, 77, 65, 76, 76, 73, 78, 84>>,
          <<84, 73, 78, 89, 73, 78, 84>>, <<68, 69, 67, 73, 77, 65, 76>>,
          <<78, 85, 77, 69, 82, 73, 67>>, <<70, 76, 79, 65, 84>>,
          <<82, 69, 65, 76>>, <<68, 79, 85, 66, 76, 69>>, <<67, 72, 65, 82>>,
          <<86, 65, 82, 67, 72, 65, 82>>, <<84, 69, 88, 84>>,
          <<78, 67, 72, 65, 82>>, <<78, 86, 65, 82, 67, 72, 65, 82>>,
          <<78, 84, 69, 88, 84>>, <<68, 65, 84, 69>>, <<84, 73, 77, 69>>,
          <<68, 65, 84, 69, 84, 73, 77, 69>>,
          <<84, 73, 77, 69, 83, 84, 65, 77, 80>>, <<89, 69, 65, 82>>,
          <<66, 79, 79, 76, 69, 65, 78>>, <<66, 79, 79, 76>>, <<66, 73, 84>>,
          <<66, 76, 79, 66>>, <<67, 76, 79, 66>>, <<66, 73, 78, 65, 82, 89>>,
          <<86, 65, 82, 66, 73, 78, 65, 82, 89>>, <<74, 83, 79, 78>>,
          <<88, 77, 76>>, <<85, 85, 73, 68>>, <<83, 69, 82, 73, 65, 76>>,
          <<65, 85, 84, 79, 95, 73, 78, 67, 82, 69, 77, 69, 78, 84>> }
    THEN "TypeName"
    \* TRUE FALSE
    ELSE IF word \in
        { <<84, 82, 85, 69>>, <<70, 65, 76, 83, 69>> }
    THEN "Boolean"
    \* COUNT SUM AVG MIN MAX STDDEV VARIANCE GROUP_CONCAT STRING_AGG CONCAT
    \* SUBSTRING SUBSTR LENGTH UPPER LOWER TRIM LTRIM RTRIM REPLACE
    \* COALESCE NOW CURRENT_DATE CURRENT_TIME CURRENT_TIMESTAMP DATEADD
    \* DATEDIFF EXTRACT CAST CONVERT TO_CHAR TO_DATE TO_NUMBER
    ELSE IF word \in
        { <<67, 79, 85, 78, 84>>, <<83, 85, 77>>, <<65, 86, 71>>,
          <<77, 73, 78>>, <<77, 65, 88>>, <<83, 84, 68, 68, 69, 86>>,
          <<86, 65, 82, 73, 65, 78, 67, 69>>,
          <<71, 82, 79, 85, 80, 95, 67, 79, 78, 67, 65, 84>>,
          <<83, 84, 82, 73, 78, 71, 95, 65, 71, 71>>,
          <<67, 79, 78, 67, 65, 84>>, <<83, 85, 66, 83, 84, 82, 73, 78, 71>>,
          <<83, 85, 66, 83, 84, 82>>, <<76, 69, 78, 71, 84, 72>>,
          <<85, 80, 80, 69, 82>>, <<76, 79, 87, 69, 82>>, <<84, 82, 73, 77>>,
          <<76, 84, 82, 73, 77>>, <<82, 84, 82, 73, 77>>,
          <<82, 69, 80, 76, 65, 67, 69>>, <<67, 79, 65, 76, 69, 83, 67, 69>>,
          <<78, 79, 87>>, <<67, 85, 82, 82, 69, 78, 84, 95, 68, 65, 84, 69>>,
          <<67, 85, 82, 82, 69, 78, 84, 95, 84, 73, 77, 69>>,
          <<67, 85, 82, 82, 69, 78, 84, 95, 84, 73, 77, 69, 83, 84, 65, 77, 80>>,
          <<68, 65, 84, 69, 65, 68, 68>>, <<68, 65, 84, 69, 68, 73, 70, 70>>,
          <<69, 88, 84, 82, 65, 67, 84>>, <<67, 65, 83, 84>>,
          <<67, 79, 78, 86, 69, 82, 84>>, <<84, 79, 95, 67, 72, 65, 82>>,
          <<84, 79, 95, 68, 65, 84, 69>>,
          <<84, 79, 95, 78, 85, 77, 66, 69, 82>> }
    THEN "FunctionName"
    ELSE "Identifier"

\* The loop of a quoted string or identifier: a doubled quote goes on, a
\* single one ends it.
RECURSIVE SqlQuotedEnd(_, _, _)
SqlQuotedEnd(text, pos, quote) ==
    IF pos < Len(text)
    THEN IF At(text, pos) = quote
         THEN IF pos + 1 < Len(text) /\ At(text, pos + 1) = quote
              THEN SqlQuotedEnd(text, pos + 2, quote)
              ELSE pos + 1
         ELSE SqlQuotedEnd(text, pos + 1, quote)
    ELSE pos

\* Mutation of SqlString: the literal also ends at a newline.
SqlStringOnLine(text, start) ==
    One("String", start,
        IF SkipUntil(text, start + 1, {Ch.lf}) < SqlQuotedEnd(text, start + 1, Ch.sq)
        THEN SkipUntil(text, start + 1, {Ch.lf})
        ELSE SqlQuotedEnd(text, start + 1, Ch.sq))

\* Single-quoted string
SqlString(text, start) ==
    One("String", start, SqlQuotedEnd(text, start + 1, Ch.sq))

\* Bracket-quoted identifier (SQL Server) [identifier]; q is where the
\* search for ']' stopped.
SqlBracketed(text, start, q) ==
    One(IF \E i \in (start + 1)..(q - 1) : is_ident_start(At(text, i))
        THEN "Identifier" ELSE "Operator",
        start, ClosedAt(text, q))

SqlNumberEnd(text, start) ==
    IF ZeroThen(text, start, {120, 88})
    THEN SkipWhile(text, start + 2, HexDigits)
    ELSE ExponentEnd(text,
             FractionEnd(text, SkipWhile(text, start, Digits), Digits, FALSE),
             Digits)

\* Identifier or keyword; e is the end of the word, which is compared in
\* upper case (u8::to_ascii_uppercase).
SqlWord(text, start, e) ==
    One(IF At(text, start) = Ch.at THEN "VariableName"
        ELSE SqlWordKind([i \in 1..(e - start) |->
                             IF At(text, start + i - 1) \in Lower
                             THEN At(text, start + i - 1) - 32
                             ELSE At(text, start + i - 1)]),
        start, e)

\* Operators and punctuation; the pairs are == <= >= != <> << >> || ::
SqlOperator(text, start) ==
    One("Operator", start,
        OperatorEnd(text, start,
            { <<Ch.eq, Ch.eq>>, <<Ch.lt, Ch.eq>>, <<Ch.gt, Ch.eq>>,
              <<Ch.bang, Ch.eq>>, <<Ch.lt, Ch.gt>>, <<Ch.lt, Ch.lt>>,
              <<Ch.gt, Ch.gt>>, <<Ch.pipe, Ch.pipe>>, <<Ch.colon, Ch.colon>> }))

SqlStep(text, pos) ==
    IF At(text, pos) \in WS THEN One("Whitespace", pos, SkipWhile(text, pos, WS))
    \* Line comment (-- or #)
    ELSE IF At(text, pos) = Ch.minus /\ pos + 1 < Len(text)
            /\ At(text, pos + 1) = Ch.minus
    THEN One("Comment", pos, SkipUntil(text, pos + 2, {Ch.lf}))
    ELSE IF At(text, pos) = Ch.hash
    THEN One("Comment", pos, SkipUntil(text, pos + 1, {Ch.lf}))
    ELSE IF At(text, pos) = Ch.slash /\ pos + 1 < Len(text)
            /\ At(text, pos + 1) = Ch.star
    THEN One("Comment", pos, BlockCommentEnd(text, pos + 2))
    ELSE IF At(text, pos) = Ch.sq THEN SqlString(text, pos)
    ELSE IF At(text, pos) = Ch.dq
    THEN One("Identifier", pos, SqlQuotedEnd(text, pos + 1, Ch.dq))
    ELSE IF At(text, pos) = Ch.btick
    THEN One("Identifier", pos, ClosedAt(text, SkipUntil(text, pos + 1, {Ch.btick})))
    ELSE IF At(text, pos) = Ch.lbracket
    THEN SqlBracketed(text, pos, SkipUntil(text, pos + 1, {Ch.rbracket}))
    ELSE IF At(text, pos) \in Digits THEN One("Number", pos, SqlNumberEnd(text, pos))
    ELSE IF is_ident_start(At(text, pos)) \/ At(text, pos) = Ch.at
    THEN SqlWord(text, pos,
                 SkipWhile(text,
                           IF At(text, pos) = Ch.at
                           THEN StepIf(text, pos + 1, {Ch.at}) ELSE pos,
                           IdentContinue))
    ELSE IF At(text, pos) \in { Ch.eq, Ch.lt, Ch.gt, Ch.bang, Ch.plus, Ch.minus,
                               Ch.star, Ch.slash, Ch.percent, Ch.lparen,
                               Ch.rparen, Ch.comma, Ch.semi, Ch.dot, Ch.pipe,
                               Ch.amp, Ch.caret, Ch.tilde }
    THEN SqlOperator(text, pos)
    ELSE One("Error", pos, pos + 1)

-----------------------------------------------------------------------------
(* AsciiDocLexer *)

\* An iteration's outcome r with the value it leaves in line_start.
WithLineStart(r, line_start) ==
    [pos |-> r.pos, toks |-> r.toks, status |-> r.status, line_start |-> line_start]

\* The end of a line-start construct whose token ends at e, the end of the
\* line:  tokens.push(Token::new(kind, start..e));
\*        line_start = text.get(e) == Some(&b'\n'); if line_start { pos += 1; }
AsciiDocLine(text, kind, start, e) ==
    [pos |-> IF e < Len(text) /\ At(text, e) = Ch.lf THEN e + 1 ELSE e,
     toks |-> <<Token(kind, start, e)>>,
     status |-> "ok",
     line_start |-> e < Len(text) /\ At(text, e) = Ch.lf]

\* Block delimiters are 4+ repeated characters; e is the end of the run.
AsciiDocIsDelimiter(text, pos, e) ==
    /\ At(text, pos) \in {Ch.minus, Ch.star, Ch.eq, Ch.under, Ch.dot, Ch.slash}
    /\ e - pos >= 4
    /\ (e >= Len(text) \/ At(text, e) = Ch.lf \/ is_whitespace(At(text, e)))

\* Attribute entry (":name: value"); e is the end of the name.
AsciiDocIsEntry(text, pos, e) ==
    /\ At(text, pos) = Ch.colon
    /\ pos + 1 < Len(text)
    /\ At(text, pos + 1) # Ch.colon
    /\ e < Len(text)
    /\ At(text, e) = Ch.colon

\* The loop that looks for the closing delimiter of inline formatting; the
\* result is the cursor and found_end.
RECURSIVE AsciiDocFormatEnd(_, _, _, _)
AsciiDocFormatEnd(text, pos, c, is_double) ==
    IF pos >= Len(text) THEN [pos |-> pos, found_end |-> FALSE]
    ELSE IF At(text, pos) = c /\ ~is_double
    THEN [pos |-> pos + 1, found_end |-> TRUE]
    ELSE IF At(text, pos) = c /\ pos + 1 < Len(text) /\ At(text, pos + 1) = c
    THEN [pos |-> pos + 2, found_end |-> TRUE]
    ELSE IF At(text, pos) = Ch.lf THEN [pos |-> pos, found_end |-> FALSE]
    ELSE AsciiDocFormatEnd(text, pos + 1, c, is_double)

\* The inline-formatting arm; r is what the loop returned.
AsciiDocFormat(start, r) ==
    One(IF r.found_end THEN "String" ELSE "Identifier", start, r.pos)

\* Attributes in []: while pos < len && depth > 0 { [ => +1, ] => -1; pos += 1 }
RECURSIVE AsciiDocBracketEnd(_, _, _)
AsciiDocBracketEnd(text, pos, depth) ==
    IF pos < Len(text) /\ depth > 0
    THEN AsciiDocBracketEnd(text, pos + 1,
             IF At(text, pos) = Ch.lbracket THEN depth + 1
             ELSE IF At(text, pos) = Ch.rbracket THEN depth - 1
             ELSE depth)
    ELSE pos

\* The macro target and its attributes; q is the end of the target.
AsciiDocMacroEnd(text, q) ==
    IF q < Len(text) /\ At(text, q) = Ch.lbracket
    THEN AsciiDocBracketEnd(text, q + 1, 1) ELSE q

\* The letter arm; e is the end of the word.
AsciiDocWord(text, start, e) ==
    IF e + 1 < Len(text) /\ At(text, e) = Ch.colon /\ At(text, e + 1) = Ch.colon
    THEN One("Macro", start,
             AsciiDocMacroEnd(text, SkipUntil(text, e + 2, {Ch.lbracket, Ch.lf})))
    ELSE One("Identifier", start, e)

\* The link arm; e is the end of the URL.
AsciiDocLinkEnd(text, e) ==
    IF e < Len(text) /\ At(text, e) = Ch.lbracket
    THEN ClosedAt(text, SkipUntil(text, e + 1, {Ch.rbracket})) ELSE e

\* b'h' if pos + 7 < len && &text[pos..pos + 7] == b"http://" ||
\*         pos + 8 < len && &text[pos..pos + 8] == b"https://"
AsciiDocIsLink(text, pos) ==
    \/ pos + 7 < Len(text)
       /\ Slice(text, pos, pos + 7) = <<104, 116, 116, 112, 58, 47, 47>>
    \/ pos + 8 < Len(text)
       /\ Slice(text, pos, pos + 8) = <<104, 116, 116, 112, 115, 58, 47, 47>>

\* The attribute-reference arm; e is where the loop stopped.  Without a '}'
\* the token is the '{' alone and the cursor stays at e.
AsciiDocReference(text, start, e) ==
    IF e < Len(text) /\ At(text, e) = Ch.rbrace
    THEN One("VariableName", start, e + 1)
    ELSE Ok(e, <<Token("Identifier", start, start + 1)>>)

\* The `match b` of an iteration
AsciiDocMatch(text, pos) ==
    IF At(text, pos) \in {Ch.sp, Ch.tab, Ch.cr}
    THEN One("Whitespace", pos, SkipWhile(text, pos, {Ch.sp, Ch.tab, Ch.cr}))
    ELSE IF At(text, pos) = Ch.lf THEN One("Whitespace", pos, pos + 1)
    ELSE IF At(text, pos) \in {Ch.star, Ch.under, Ch.btick, Ch.plus, Ch.hash,
                               Ch.caret, Ch.tilde}
    THEN IF pos + 1 < Len(text) /\ At(text, pos + 1) = At(text, pos)
         THEN AsciiDocFormat(pos, AsciiDocFormatEnd(text, pos + 2, At(text, pos), TRUE))
         ELSE AsciiDocFormat(pos, AsciiDocFormatEnd(text, pos + 1, At(text, pos), FALSE))
    ELSE IF At(text, pos) = 104 /\ AsciiDocIsLink(text, pos)
    THEN One("String", pos,
             AsciiDocLinkEnd(text, SkipUntil(text, pos, WS \cup {Ch.lbracket})))
    ELSE IF At(text, pos) \in Lower \cup Upper
    THEN AsciiDocWord(text, pos, SkipWhile(text, pos, IdentContinue \cup {Ch.minus}))
    ELSE IF At(text, pos) = Ch.lbrace
    THEN AsciiDocReference(text, pos, SkipUntil(text, pos + 1, {Ch.rbrace, Ch.lf}))
    ELSE One("Identifier", pos, pos + 1)

\* The constructs tried in turn when line_start holds; each either ends the
\* iteration (`continue`) or puts the cursor back and falls to the next.
AsciiDocLineStart(text, pos) ==
    \* Document title (= Title)
    IF At(text, pos) = Ch.eq
    THEN AsciiDocLine(text, "Keyword", pos,
             SkipUntil(text, StepIf(text, SkipWhile(text, pos, {Ch.eq}), {Ch.sp}),
                       {Ch.lf}))
    \* Block delimiters (----, ****, ====, etc.)
    ELSE IF AsciiDocIsDelimiter(text, pos, SkipWhile(text, pos, {At(text, pos)}))
    THEN AsciiDocLine(text, "Operator", pos, SkipUntil(text, pos, {Ch.lf}))
    \* Attribute entry (":name: value")
    ELSE IF AsciiDocIsEntry(text, pos, SkipUntil(text, pos + 1, {Ch.colon, Ch.lf}))
    THEN AsciiDocLine(text, "Attribute", pos,
             SkipUntil(text, SkipUntil(text, pos + 1, {Ch.colon, Ch.lf}) + 1, {Ch.lf}))
    \* Block title (.Title)
    ELSE IF /\ At(text, pos) = Ch.dot /\ pos + 1 < Len(text)
            /\ ~is_ascii_digit(At(text, pos + 1)) /\ At(text, pos + 1) # Ch.sp
    THEN AsciiDocLine(text, "PropertyName", pos, SkipUntil(text, pos + 1, {Ch.lf}))
    \* Unordered list (* or **)
    ELSE IF /\ At(text, pos) = Ch.star /\ pos + 1 < Len(text)
            /\ At(text, pos + 1) \in {Ch.sp, Ch.star}
    THEN WithLineStart(One("Operator", pos, SkipWhile(text, pos, {Ch.star})), FALSE)
    \* Ordered list (. or ..)
    ELSE IF /\ At(text, pos) = Ch.dot /\ pos + 1 < Len(text)
            /\ At(text, pos + 1) \in {Ch.sp, Ch.dot}
            /\ SkipWhile(text, pos, {Ch.dot}) < Len(text)
            /\ At(text, SkipWhile(text, pos, {Ch.dot})) = Ch.sp
    THEN WithLineStart(One("Operator", pos, SkipWhile(text, pos, {Ch.dot})), FALSE)
    \* Line comment (//)
    ELSE IF /\ At(text, pos) = Ch.slash /\ pos + 1 < Len(text)
            /\ At(text, pos + 1) = Ch.slash
            /\ (pos + 2 >= Len(text) \/ At(text, pos + 2) # Ch.slash)
    THEN AsciiDocLine(text, "Comment", pos, SkipUntil(text, pos, {Ch.lf}))
    \* line_start = false; and the match
    ELSE WithLineStart(AsciiDocMatch(text, pos), At(text, pos) = Ch.lf)

AsciiDocStep(text, pos, line_start) ==
    IF line_start THEN AsciiDocLineStart(text, pos)
    ELSE WithLineStart(AsciiDocMatch(text, pos), At(text, pos) = Ch.lf)

-----------------------------------------------------------------------------
(* Language and LexerRegistry *)

Languages ==
    { "PlainText", "Json", "JavaScript", "TypeScript", "Markdown", "Html",
      "CSharp", "Css", "Shell", "Rust", "AsciiDoc", "C", "Cpp", "Java", "Go",
      "Python", "Toml", "Yaml", "Sql" }

\* LexerRegistry::get_lexer: the scanner a language is dispatched to.
get_lexer(language) ==
    IF language = "Json" THEN "JsonLexer"
    ELSE IF language = "Markdown" THEN "MarkdownLexer"
    ELSE IF language = "JavaScript" THEN "JavaScriptLexer"
    ELSE IF language = "TypeScript" THEN "JavaScriptLexer"
    ELSE IF language = "CSharp" THEN "CSharpLexer"
    ELSE IF language = "Html" THEN "HtmlLexer"
    ELSE IF language = "Css" THEN "CssLexer"
    ELSE IF language = "Shell" THEN "ShellLexer"
    ELSE IF language = "Rust" THEN "RustLexer"
    ELSE IF language = "AsciiDoc" THEN "AsciiDocLexer"
    ELSE IF language = "C" THEN "CLexer"
    ELSE IF language = "Cpp" THEN "CppLexer"
    ELSE IF language = "Java" THEN "JavaLexer"
    ELSE IF language = "Go" THEN "GoLexer"
    ELSE IF language = "Python" THEN "PythonLexer"
    ELSE IF language = "Toml" THEN "TomlLexer"
    ELSE IF language = "Yaml" THEN "YamlLexer"
    ELSE IF language = "Sql" THEN "SqlLexer"
    ELSE "PlainTextLexer"

\* One iteration of the main loop of a scanner at cursor pos < len.  The
\* plain-text scanner has no loop: its whole body is the one iteration.
\* line_start is the flag the AsciiDoc scanner keeps from one iteration to
\* the next; no other scanner has a local beside pos and tokens.
LexerStep(lexer, text, pos, line_start) ==
    IF lexer = "JsonLexer" THEN JsonStep(text, pos)
    ELSE IF lexer = "MarkdownLexer" THEN MarkdownStep(text, pos)
    ELSE IF lexer = "JavaScriptLexer" THEN JavaScriptStep(text, pos)
    ELSE IF lexer = "CSharpLexer" THEN CSharpStep(text, pos)
    ELSE IF lexer = "HtmlLexer" THEN HtmlStep(text, pos)
    ELSE IF lexer = "CssLexer" THEN CssStep(text, pos)
    ELSE IF lexer = "ShellLexer" THEN ShellStep(text, pos)
    ELSE IF lexer = "RustLexer" THEN RustStep(text, pos)
    ELSE IF lexer = "AsciiDocLexer" THEN AsciiDocStep(text, pos, line_start)
    ELSE IF lexer = "CLexer" THEN CStep(text, pos)
    ELSE IF lexer = "CppLexer" THEN CppStep(text, pos)
    ELSE IF lexer = "JavaLexer" THEN JavaStep(text, pos)
    ELSE IF lexer = "GoLexer" THEN GoStep(text, pos)
    ELSE IF lexer = "PythonLexer" THEN PythonStep(text, pos)
    ELSE IF lexer = "TomlLexer" THEN TomlStep(text, pos)
    ELSE IF lexer = "YamlLexer" THEN YamlStep(text, pos)
    ELSE IF lexer = "SqlLexer" THEN SqlStep(text, pos)
    ELSE Ok(Len(text), PlainTextTokenize(text))

\* The value of line_start after an iteration: what the AsciiDoc iteration
\* left in it, and what it was for the scanners that have no such local.
LineStartAfter(r, line_start) ==
    IF "line_start" \in DOMAIN r THEN r.line_start ELSE line_start

\* Lexer::tokenize: the main loop run to its end.  The result is the token
\* vector and how the call ended; an iteration that does not move the
\* cursor repeats for ever.
RECURSIVE RunLexer(_, _, _, _, _)
RunLexer(lexer, text, pos, toks, line_start) ==
    IF pos >= Len(text) THEN [tokens |-> toks, status |-> "ok"]
    ELSE LET r == LexerStep(lexer, text, pos, line_start)
         IN IF r.status # "ok" THEN [tokens |-> toks \o r.toks, status |-> r.status]
            ELSE IF r.pos <= pos THEN [tokens |-> toks \o r.toks, status |-> "hang"]
            ELSE RunLexer(lexer, text, r.pos, toks \o r.toks, LineStartAfter(r, line_start))

tokenize(language, text) == RunLexer(get_lexer(language), text, 0, <<>>, TRUE)

-----------------------------------------------------------------------------
(* Language::from_extension.  A &str is a sequence of Unicode scalar       *)
(* values (code points); str::to_lowercase lower-cases by the Unicode      *)
(* tables, not only the ASCII letters.                                     *)

\* char::to_lowercase, for the characters of the extensions given to
\* from_extension: ASCII, and the letters outside ASCII whose upper- or
\* lower-case form is an ASCII letter or that lower-case to two characters:
\*   U+0130 (304)  I with dot above      U+0131 (305)  dotless i
\*   U+017F (383)  long s                U+212A (8490) Kelvin sign
char_to_lowercase(c) ==
    IF c \in Upper THEN <<c + 32>>
    ELSE IF c = 8490 THEN <<107>>
    ELSE IF c = 304 THEN <<105, 775>>
    ELSE <<c>>

\* str::to_lowercase
RECURSIVE to_lowercase(_)
to_lowercase(s) ==
    IF s = <<>> THEN <<>> ELSE char_to_lowercase(Head(s)) \o to_lowercase(Tail(s))

\* The arms of the match in from_extension, in order; a word is the sequence
\* of the code points of its characters.
ExtensionArms ==
    << \* json jsonc
       [words |-> {<<106, 115, 111, 110>>, <<106, 115, 111, 110, 99>>},
        language |-> "Json"],
       \* rs
       [words |-> {<<114, 115>>},
        language |-> "Rust"],
       \* py pyw pyi
       [words |-> {<<112, 121>>, <<112, 121, 119>>, <<112, 121, 105>>},
        language |-> "Python"],
       \* js mjs cjs
       [words |-> {<<106, 115>>, <<109, 106, 115>>, <<99, 106, 115>>},
        language |-> "JavaScript"],
       \* ts mts cts
       [words |-> {<<116, 115>>, <<109, 116, 115>>, <<99, 116, 115>>},
        language |-> "TypeScript"],
       \* md markdown
       [words |-> {<<109, 100>>, <<109, 97, 114, 107, 100, 111, 119, 110>>},
        language |-> "Markdown"],
       \* toml
       [words |-> {<<116, 111, 109, 108>>},
        language |-> "Toml"],
       \* yaml yml
       [words |-> {<<121, 97, 109, 108>>, <<121, 109, 108>>},
        language |-> "Yaml"],
       \* c h
       [words |-> {<<99>>, <<104>>},
        language |-> "C"],
       \* cpp cc cxx hpp hxx
       [words |-> {<<99, 112, 112>>, <<99, 99>>, <<99, 120, 120>>,
                   <<104, 112, 112>>, <<104, 120, 120>>},
        language |-> "Cpp"],
       \* cs
       [words |-> {<<99, 115>>},
        language |-> "CSharp"],
       \* go
       [words |-> {<<103, 111>>},
        language |-> "Go"],
       \* html htm
       [words |-> {<<104, 116, 109, 108>>, <<104, 116, 109>>},
        language |-> "Html"],
       \* css
       [words |-> {<<99, 115, 115>>},
        language |-> "Css"],
       \* java
       [words |-> {<<106, 97, 118, 97>>},
        language |-> "Java"],
       \* xml svg xhtml xsd wsdl
       [words |-> {<<120, 109, 108>>, <<115, 118, 103>>,
                   <<120, 104, 116, 109, 108>>, <<120, 115, 100>>,
                   <<119, 115, 100, 108>>},
        language |-> "Xml"],
       \* sh bash zsh
       [words |-> {<<115, 104>>, <<98, 97, 115, 104>>, <<122, 115, 104>>},
        language |-> "Shell"],
       \* sql
       [words |-> {<<115, 113, 108>>},
        language |-> "Sql"],
       \* adoc asciidoc asc
       [words |-> {<<97, 100, 111, 99>>,
                   <<97, 115, 99, 105, 105, 100, 111, 99>>, <<97, 115, 99>>},
        language |-> "AsciiDoc"] >>

\* match ext.as_str() { ... } without the lower-casing
RECURSIVE MatchArms(_, _)
MatchArms(s, i) ==
    IF i > Len(ExtensionArms) THEN "PlainText"
    ELSE IF s \in ExtensionArms[i].words THEN ExtensionArms[i].language
    ELSE MatchArms(s, i + 1)

\* from_extension comparing the extension as it is spelled.
from_extension_exact(ext) == MatchArms(ext, 1)

\* Language::from_extension
from_extension(ext) == MatchArms(to_lowercase(ext), 1)

-----------------------------------------------------------------------------
(* Settings::parse_color.  A &str is the sequence of its UTF-8 bytes; the   *)
(* result is None, Some(colour) or a panic.  The colour, a u32 laid out as *)
(* 0xAABBGGRR, is the sequence of its four bytes from the lowest: r g b a. *)

ColorNone == [kind |-> "None", value |-> <<>>]
ColorPanic == [kind |-> "Panic", value |-> <<>>]

\* str::trim for strings whose white space is ASCII: U+0009..U+000D, U+0020
RECURSIVE trim(_)
trim(s) ==
    IF s = <<>> THEN s
    ELSE IF s[1] \in (9..13) \cup {32} THEN trim(Tail(s))
    ELSE IF s[Len(s)] \in (9..13) \cup {32} THEN trim(SubSeq(s, 1, Len(s) - 1))
    ELSE s

\* str::is_char_boundary: the start, the end, or a byte that is not a UTF-8
\* continuation byte (0x80..0xBF); &s[a..b] panics at any other index.
is_char_boundary(s, i) ==
    \/ i = 0
    \/ i = Len(s)
    \/ i < Len(s) /\ At(s, i) \notin 128..191

\* The value of an ASCII hex digit
to_digit(b) == IF b \in Digits THEN b - 48 ELSE IF b \in 97..102 THEN b - 87 ELSE b - 55

\* u32::from_str_radix(src, 16) of at most two bytes: an optional '+', then
\* one hex digit or more; anything else is an error.
from_str_radix(src) ==
    IF src = <<>> \/ src = <<Ch.plus>> \/ src = <<Ch.minus>>
    THEN [ok |-> FALSE, value |-> 0]
    ELSE IF src[1] = Ch.plus
    THEN IF \A j \in 2..Len(src) : src[j] \in HexDigits
         THEN [ok |-> TRUE,
               value |-> IF Len(src) = 2 THEN to_digit(src[2])
                         ELSE 16 * to_digit(src[2]) + to_digit(src[3])]
         ELSE [ok |-> FALSE, value |-> 0]
    ELSE IF \A j \in 1..Len(src) : src[j] \in HexDigits
    THEN [ok |-> TRUE,
          value |-> IF Len(src) = 1 THEN to_digit(src[1])
                    ELSE 16 * to_digit(src[1]) + to_digit(src[2])]
    ELSE [ok |-> FALSE, value |-> 0]

\* The `let r`, `let g`, `let b`, `let a` lines in their order: pair k of hex
\* is sliced (a panic off a character boundary), then parsed (None on an
\* error); value holds the bytes of r | (g << 8) | (b << 16) so far.
RECURSIVE ColorPairs(_, _, _)
ColorPairs(hex, k, value) ==
    IF 2 * k >= Len(hex)
    THEN [kind |-> "Some",
          value |-> IF Len(hex) = 8 THEN value ELSE Append(value, 255)]
    ELSE IF ~is_char_boundary(hex, 2 * k) \/ ~is_char_boundary(hex, 2 * k + 2)
    THEN ColorPanic
    ELSE IF ~from_str_radix(Slice(hex, 2 * k, 2 * k + 2)).ok
    THEN ColorNone
    ELSE ColorPairs(hex, k + 1,
                    Append(value, from_str_radix(Slice(hex, 2 * k, 2 * k + 2)).value))

\* parse_color after `let s = s.trim();`
ColorOfTrimmed(s) ==
    IF s = <<>> \/ s[1] # Ch.hash THEN ColorNone
    ELSE IF Len(s) - 1 \notin {6, 8} THEN ColorNone
    ELSE ColorPairs(Tail(s), 0, <<>>)

parse_color(s) == ColorOfTrimmed(trim(s))

\* The strings parse_color is called with: a prefix, up to ColorMaxUnits
\* pieces (pairs of hex digits, a signed digit, single characters, a
\* two-byte character), a suffix; and the strings of test_parse_color.
RECURSIVE ColorBodies(_)
ColorBodies(n) ==
    IF n = 0 THEN {<<>>}
    ELSE ColorBodies(n - 1) \cup
         { b \o u : b \in ColorBodies(n - 1),
                    u \in { <<102, 102>>, <<56, 48>>, <<Ch.plus, 102>>,
                            <<102>>, <<103>>, <<195, 169>> } }

ColorInputs ==
    { p \o b \o e : p \in { <<Ch.hash>>, <<>>, <<Ch.sp, Ch.hash>> },
                    b \in ColorBodies(ColorMaxUnits),
                    e \in { <<>>, <<Ch.sp>> } }
    \cup { <<35, 70, 70, 48, 48, 48, 48>>, <<35, 48, 48, 70, 70, 48, 48, 70, 70>>,
           <<35, 48, 48, 48, 48, 70, 70, 56, 48>>, <<70, 70, 48, 48, 48, 48>>,
           <<35, 70, 70>> }

-----------------------------------------------------------------------------
(* A call of a function that has no state, its argument and its result;   *)
(* and the table of a Theme object of its own.                             *)

VARIABLES fcall, styles

\* The ways a letter of the table can be written: itself, its upper-case
\* form, and the characters outside ASCII that lower- or upper-case to it.
CaseForms ==
    [c \in Lower |-> {c, c - 32} \cup (IF c = 115 THEN {383} ELSE {})
                                \cup (IF c = 105 THEN {304, 305} ELSE {})
                                \cup (IF c = 107 THEN {8490} ELSE {})]

\* The strings made of one of the forms of each character of w.
RECURSIVE Spellings(_, _)
Spellings(w, forms) ==
    IF w = <<>> THEN {<<>>}
    ELSE { <<c>> \o r : c \in forms[Head(w)], r \in Spellings(Tail(w), forms) }

\* The extensions given to from_extension: every spelling of every word of
\* the table, and strings that are no spelling of any:
\*   ""  txt  unknownext  r  rss  jsonx  " rs"  "rs "  .rs  r5
ExtInputs ==
    UNION { Spellings(w, CaseForms) :
            w \in UNION { ExtensionArms[i].words : i \in DOMAIN ExtensionArms } }
    \cup { <<>>, <<116, 120, 116>>,
           <<117, 110, 107, 110, 111, 119, 110, 101, 120, 116>>,
           <<114>>, <<114, 115, 115>>, <<106, 115, 111, 110, 120>>,
           <<32, 114, 115>>, <<114, 115, 32>>, <<46, 114, 115>>, <<114, 53>> }

FnIdle ==
    /\ fcall = [fn |-> "none", arg |-> <<>>, ret |-> "none", done |-> TRUE]
    /\ styles = <<>>

FnInit ==
    fcall \in { [fn |-> "from_extension", arg |-> e, ret |-> "none", done |-> FALSE] :
                e \in ExtInputs }
          \cup { [fn |-> "parse_color", arg |-> c, ret |-> "none", done |-> FALSE] :
                  c \in ColorInputs }

\* Language::from_extension(arg) runs and returns.
CallFromExtension ==
    /\ fcall.fn = "from_extension"
    /\ ~fcall.done
    /\ fcall' = [fcall EXCEPT !.ret = from_extension(fcall.arg), !.done = TRUE]

\* Settings::parse_color(arg) runs and returns, or panics.
CallParseColor ==
    /\ fcall.fn = "parse_color"
    /\ ~fcall.done
    /\ fcall' = [fcall EXCEPT !.ret = parse_color(fcall.arg), !.done = TRUE]

-----------------------------------------------------------------------------
(* Inputs *)

RECURSIVE SeqsUpTo(_, _)
SeqsUpTo(S, n) ==
    IF n = 0 THEN {<<>>}
    ELSE LET shorter == SeqsUpTo(S, n - 1)
         IN shorter \cup {Append(s, b) : s \in {t \in shorter : Len(t) = n - 1}, b \in S}

\* The bytes the texts of a language are built from: the bytes its scanner
\* branches on, a letter, and a byte above 0x7f.
Alphabet(language) ==
    IF language = "Json"
    THEN {Ch.dq, Ch.bslash, Ch.slash, Ch.star, 49, 116, 128}
    ELSE IF language \in {"JavaScript", "TypeScript"}
         THEN {Ch.btick, Ch.bslash, Ch.slash, Ch.star, Ch.dq, 97, 128}
    ELSE IF language = "Markdown"
         THEN {Ch.hash, Ch.lf, Ch.star, Ch.btick, Ch.lbracket, 97, 128}
    ELSE IF language = "Html"
         THEN {Ch.lt, Ch.gt, Ch.slash, Ch.eq, Ch.sp, Ch.dq, 97}
    ELSE IF language = "CSharp"
         THEN {Ch.dollar, Ch.at, Ch.dq, Ch.lbrace, Ch.rbrace, Ch.bslash, 97}
    ELSE IF language = "Css"
         THEN {Ch.slash, Ch.star, Ch.dq, Ch.minus, Ch.dot, 49, 128}
    ELSE IF language = "Shell"
         THEN {Ch.dollar, Ch.lparen, Ch.rparen, Ch.dq, Ch.sq, Ch.bslash, Ch.lf, 97, 128}
    ELSE IF language = "Rust"
         THEN {Ch.slash, Ch.star, Ch.sq, Ch.dq, Ch.bslash, Ch.hash, Ch.lbracket,
               Ch.rbracket, 128}
    ELSE IF language = "AsciiDoc"
         THEN {Ch.eq, Ch.lf, Ch.lbrace, Ch.rbrace, Ch.colon, Ch.dot, Ch.slash, 97}
    ELSE IF language = "C"
         THEN {Ch.dq, Ch.bslash, Ch.lf, Ch.hash, 97}
    ELSE IF language = "Cpp"
         THEN {82, Ch.dq, Ch.lparen, Ch.rparen, Ch.bslash, Ch.lf, 97}
    ELSE IF language = "Java"
         THEN {Ch.dq, Ch.bslash, Ch.lf, Ch.at, 97}
    ELSE IF language = "Go"
         THEN {Ch.dq, Ch.bslash, Ch.lf, Ch.btick, 97}
    ELSE IF language = "Python"
         THEN {Ch.dq, Ch.bslash, Ch.lf, 102, 97}
    ELSE IF language = "Toml"
         THEN {Ch.dq, Ch.sq, Ch.bslash, Ch.lf, 97}
    ELSE IF language = "Yaml"
         THEN {Ch.dq, Ch.bslash, Ch.minus, Ch.lf, 97}
    ELSE IF language = "Sql"
         THEN {Ch.sq, Ch.dq, Ch.minus, Ch.lf, 97}
    ELSE {97, Ch.lf, 128}

\* Texts of the unit tests and of the documented scenarios.
\*   {"key": "value"}     true     null     -1.5e+3
\*   const x = `a`        # Heading 1\n## Heading 2
\*   <a b="c"/>           $@"{{a}}"     $@"{"a"}"     $"{"a"}"
\*   .a{b:1px}            echo $x
\*   fn main() {}         "abc         fnx         fn
Samples(language) ==
    IF language = "Json"
    THEN { <<123, 34, 107, 101, 121, 34, 58, 32, 34, 118, 97, 108, 117, 101, 34, 125>>,
           <<116, 114, 117, 101>>, <<110, 117, 108, 108>>,
           <<45, 49, 46, 53, 101, 43, 51>> }
    ELSE IF language \in {"JavaScript", "TypeScript"}
         THEN { <<99, 111, 110, 115, 116, 32, 120, 32, 61, 32, 96, 97, 96>> }
    ELSE IF language = "Markdown"
         THEN { <<35, 32, 72, 101, 97, 100, 105, 110, 103, 32, 49, 10,
                  35, 35, 32, 72, 101, 97, 100, 105, 110, 103, 32, 50>> }
    ELSE IF language = "Html"
         THEN { <<60, 97, 32, 98, 61, 34, 99, 34, 47, 62>> }
    ELSE IF language = "CSharp"
         THEN { <<36, 64, 34, 123, 123, 97, 125, 125, 34>>,
                <<36, 64, 34, 123, 34, 97, 34, 125, 34>>,
                <<36, 34, 123, 34, 97, 34, 125, 34>> }
    ELSE IF language = "Css"
         \* margin: 0;     5px     10px     -1.5em     50%     5
         THEN { <<46, 97, 123, 98, 58, 49, 112, 120, 125>>,
                <<109, 97, 114, 103, 105, 110, 58, 32, 48, 59>>,
                <<53, 112, 120>>, <<49, 48, 112, 120>>,
                <<45, 49, 46, 53, 101, 109>>, <<53, 48, 37>>, <<53>> }
    ELSE IF language = "Shell"
         THEN { <<101, 99, 104, 111, 32, 36, 120>> }
    ELSE IF language = "Rust"
         THEN { <<102, 110, 32, 109, 97, 105, 110, 40, 41, 32, 123, 125>>,
                <<34, 97, 98, 99>>, <<102, 110, 120>>, <<102, 110>> }
    \* "----\n"  "* a"  ". a"  "a::b[c]"  "http://a[b]"  "*a*"  "**b**"  " \n"
    ELSE IF language = "AsciiDoc"
         THEN { <<45, 45, 45, 45, 10>>, <<42, 32, 97>>, <<46, 32, 97>>,
                <<97, 58, 58, 98, 91, 99, 93>>,
                <<104, 116, 116, 112, 58, 47, 47, 97, 91, 98, 93>>,
                <<42, 97, 42>>, <<42, 42, 98, 42, 42>>, <<32, 10>> }
    \* "abc     int x;     0x1F     #a\\\nb\nc     "\"\\"a
    ELSE IF language = "C"
         THEN { <<34, 97, 98, 99>>, <<105, 110, 116, 32, 120, 59>>,
                <<48, 120, 49, 70>>, <<35, 97, 92, 10, 98, 10, 99>>,
                <<34, 92, 34, 92, 92, 34, 97>> }
    \* "abc     R"(abc)"     R"(abc)" x     R"d(a)d"     a::b
    \* #a\\\nb\nc     #\na     #a\nb
    ELSE IF language = "Cpp"
         THEN { <<34, 97, 98, 99>>, <<82, 34, 40, 97, 98, 99, 41, 34>>,
                <<82, 34, 40, 97, 98, 99, 41, 34, 32, 120>>,
                <<82, 34, 100, 40, 97, 41, 100, 34>>, <<97, 58, 58, 98>>,
                <<35, 97, 92, 10, 98, 10, 99>>, <<35, 10, 97>>,
                <<35, 97, 10, 98>> }
    \* "abc     """a"""     >>>=     1.5f
    ELSE IF language = "Java"
         THEN { <<34, 97, 98, 99>>, <<34, 34, 34, 97, 34, 34, 34>>,
                <<62, 62, 62, 61>>, <<49, 46, 53, 102>> }
    \* "abc     x := 0o17     nil
    ELSE IF language = "Go"
         THEN { <<34, 97, 98, 99>>, <<120, 32, 58, 61, 32, 48, 111, 49, 55>>,
                <<110, 105, 108>> }
    \* def f(): pass     f"a     F'a'     """a"""     None     classy
    ELSE IF language = "Python"
         THEN { 
                <<100, 101, 102, 32, 102, 40, 41, 58, 32, 112, 97, 115, 115>>,
                <<102, 34, 97>>, <<70, 39, 97, 39>>,
                <<34, 34, 34, 97, 34, 34, 34>>, <<78, 111, 110, 101>>,
                <<99, 108, 97, 115, 115, 121>> }
    \* trueish     false_positive     true     false     a = "b     [[a]]
    ELSE IF language = "Toml"
         THEN { <<116, 114, 117, 101, 105, 115, 104>>,
                <<102, 97, 108, 115, 101, 95, 112, 111, 115, 105, 116, 105, 118, 101>>,
                <<116, 114, 117, 101>>, <<102, 97, 108, 115, 101>>,
                <<97, 32, 61, 32, 34, 98>>, <<91, 91, 97, 93, 93>> }
    \* nullable     null     truest     ---\na: ~     - a
    ELSE IF language = "Yaml"
         THEN { <<110, 117, 108, 108, 97, 98, 108, 101>>,
                <<110, 117, 108, 108>>, <<116, 114, 117, 101, 115, 116>>,
                <<45, 45, 45, 10, 97, 58, 32, 126>>, <<45, 32, 97>> }
    \* 'it''s' x     'a\nb' c     SELECT a     select     nullx
    ELSE IF language = "Sql"
         THEN { <<39, 105, 116, 39, 39, 115, 39, 32, 120>>,
                <<39, 97, 10, 98, 39, 32, 99>>,
                <<83, 69, 76, 69, 67, 84, 32, 97>>,
                <<115, 101, 108, 101, 99, 116>>,
                <<110, 117, 108, 108, 120>> }
    ELSE {}

\* The operators of two and more bytes spelled in the match patterns of a
\* scanner's operator arm, and the four bytes >>>= of java.rs.
OperatorTable(language) ==
    IF language = "C" THEN COperatorPairs \cup COperatorTriples
    ELSE IF language = "Cpp"
    THEN COperatorPairs \cup COperatorTriples
         \cup { <<Ch.colon, Ch.colon>>, <<Ch.minus, Ch.gt, Ch.star>>,
                <<Ch.dot, Ch.dot, Ch.dot>> }
    ELSE IF language = "CSharp" THEN CSharpOperatorPairs \cup CSharpOperatorTriples
    ELSE IF language = "Java"
    THEN COperatorPairs \cup COperatorTriples
         \cup { <<Ch.colon, Ch.colon>>, <<Ch.gt, Ch.gt, Ch.gt>>,
                <<Ch.gt, Ch.gt, Ch.gt, Ch.eq>> }
    ELSE IF language = "Go"
    THEN (COperatorPairs \ {<<Ch.minus, Ch.gt>>}) \cup COperatorTriples
         \cup { <<Ch.lt, Ch.minus>>, <<Ch.colon, Ch.eq>>, <<Ch.dot, Ch.dot>>,
                <<Ch.dot, Ch.dot, Ch.dot>>, <<Ch.amp, Ch.caret, Ch.eq>> }
    ELSE IF language = "Sql"
    THEN { <<Ch.eq, Ch.eq>>, <<Ch.lt, Ch.eq>>, <<Ch.gt, Ch.eq>>,
           <<Ch.bang, Ch.eq>>, <<Ch.lt, Ch.gt>>, <<Ch.lt, Ch.lt>>,
           <<Ch.gt, Ch.gt>>, <<Ch.pipe, Ch.pipe>>, <<Ch.colon, Ch.colon>> }
    ELSE {}

\* Texts with block comments, for the scanners that have them.
\*   /*a/*b*/c*/     /*/*a*/     /*a*/b     /*a     /*a*     /*/     /**/
CommentSamples(language) ==
    IF language \in {"PlainText", "Markdown", "Html", "Shell", "AsciiDoc",
                     "Python", "Toml", "Yaml"}
    THEN {}
    ELSE { <<47, 42, 97, 47, 42, 98, 42, 47, 99, 42, 47>>,
           <<47, 42, 47, 42, 97, 42, 47>>, <<47, 42, 97, 42, 47, 98>>,
           <<47, 42, 97>>, <<47, 42, 97, 42>>, <<47, 42, 47>>,
           <<47, 42, 42, 47>> }

\* The bytes that start an arm of some scanner: the punctuation and
\* whitespace bytes, a digit, a letter and a byte above 0x7f.
ArmBytes == {Ch[k] : k \in DOMAIN Ch} \cup {48, 97, 128}

ArmMaxLen == 2

\* The texts of a tokenize call: every text over the alphabet up to n bytes,
\* every text over the arm bytes up to ArmMaxLen bytes, the sample texts,
\* and each operator alone and followed by '=' and by a letter.
Texts(language, n) ==
    SeqsUpTo(Alphabet(language), n) \cup Samples(language)
        \cup OperatorTable(language)
        \cup { w \o <<b>> : w \in OperatorTable(language), b \in {Ch.eq, 97} }
        \cup CommentSamples(language)
        \cup SeqsUpTo(ArmBytes, ArmMaxLen)

-----------------------------------------------------------------------------
(* A tokenize call, one main-loop iteration per step *)

VARIABLES scanLang, scanText, scanPos, scanTokens, scanStatus, scanLineStart

scanVars == <<scanLang, scanText, scanPos, scanTokens, scanStatus, scanLineStart>>

\* let mut tokens = Vec::with_capacity(..); let mut pos = 0;
\* and, in the AsciiDoc scanner, let mut line_start = true;
ScanInit ==
    /\ scanLang \in Languages
    /\ scanText \in Texts(scanLang, MaxLen)
    /\ scanPos = 0
    /\ scanLineStart = TRUE
    /\ scanTokens = <<>>
    /\ scanStatus = "scanning"

\* One iteration of `while pos < text.len() { ... }`.
ScanStep ==
    /\ scanStatus = "scanning"
    /\ scanPos < Len(scanText)
    /\ LET r == LexerStep(get_lexer(scanLang), scanText, scanPos, scanLineStart)
       IN /\ scanPos' = r.pos
          /\ scanLineStart' = LineStartAfter(r, scanLineStart)
          /\ scanTokens' = scanTokens \o r.toks
          /\ scanStatus' = IF r.status = "ok" THEN "scanning" ELSE r.status
    /\ UNCHANGED <<scanLang, scanText>>

\* The loop condition fails: the token vector is returned.
ScanReturn ==
    /\ scanStatus = "scanning"
    /\ scanPos >= Len(scanText)
    /\ scanStatus' = "done"
    /\ UNCHANGED <<scanLang, scanText, scanPos, scanTokens, scanLineStart>>

-----------------------------------------------------------------------------
(* Tokenize calls of several threads on one lexer.  A lexer is a unit      *)
(* struct: `&self` has no field to read or write, and the cursor and the   *)
(* token vector are locals of the call, in the frame of the calling thread.*)

VARIABLES callLang, calls, frames, memo

callVars == <<callLang, calls, frames, memo>>

Threads == {"t1", "t2"}

\* The texts the threads tokenize: the sample texts of the language and the
\* short texts of quotes and letters.
CallTexts(language) == SeqsUpTo({Ch.dq, 97}, CallMaxLen) \cup Samples(language)

\* All threads running their calls in the frame of the first.
SharedFrame(t) == "t1"

\* The frame that holds the locals of the call of thread t: its own.
Frame(t) == t

\* A token vector kept from one call to the next.
VecRetained(old) == old

\* let mut tokens = Vec::with_capacity(..): empty, whatever was there.
VecNew(old) == <<>>

\* LexerRegistry::get_lexer(callLang), shared by the threads; no call yet.
\* raced: an iteration of the call ran while a call of another thread was
\* between its iterations.  later: a call was made after a result was kept.
CallsInit ==
    /\ callLang \in Languages
    /\ calls = [t \in Threads |->
                  [text |-> <<>>, status |-> "idle", ret |-> <<>>, raced |-> FALSE]]
    /\ frames = [t \in Threads |-> [pos |-> 0, tokens |-> <<>>, line_start |-> TRUE]]
    /\ memo = [some |-> FALSE, text |-> <<>>, tokens |-> <<>>, later |-> FALSE]

\* Thread t calls lexer.tokenize(text).
ThreadCall(t, text) ==
    /\ calls[t].status \in {"idle", "done"}
    /\ calls' = [calls EXCEPT ![t] = [text |-> text, status |-> "scanning",
                                      ret |-> <<>>, raced |-> FALSE]]
    /\ frames' = [frames EXCEPT ![Frame(t)] = [pos |-> 0, tokens |-> VecNew(@.tokens),
                                                line_start |-> TRUE]]
    \* a call made after a result was kept
    /\ memo' = [memo EXCEPT !.later = memo.some]
    /\ UNCHANGED callLang

\* One iteration of the main loop of the call of thread t.
ThreadStep(t) ==
    /\ calls[t].status = "scanning"
    /\ frames[Frame(t)].pos < Len(calls[t].text)
    /\ LET r == LexerStep(get_lexer(callLang), calls[t].text, frames[Frame(t)].pos,
                          frames[Frame(t)].line_start)
       IN /\ frames' = [frames EXCEPT ![Frame(t)] =
                           [pos |-> r.pos, tokens |-> @.tokens \o r.toks,
                            line_start |-> LineStartAfter(r, @.line_start)]]
          /\ calls' = [calls EXCEPT
                ![t].status = IF r.status = "ok" THEN "scanning" ELSE r.status,
                ![t].raced = @ \/ \E u \in Threads \ {t} :
                                     /\ calls[u].status = "scanning"
                                     /\ frames[Frame(u)].pos > 0]
    /\ UNCHANGED <<callLang, memo>>

\* The call of thread t returns its token vector.
ThreadReturn(t) ==
    /\ calls[t].status = "scanning"
    /\ frames[Frame(t)].pos >= Len(calls[t].text)
    /\ calls' = [calls EXCEPT ![t].status = "done", ![t].ret = frames[Frame(t)].tokens]
    /\ UNCHANGED <<callLang, frames, memo>>

\* The caller keeps the result of one call to compare later results with.
Remember(t) ==
    /\ calls[t].status = "done"
    /\ ~memo.some
    /\ memo' = [some |-> TRUE, text |-> calls[t].text, tokens |-> calls[t].ret,
                later |-> FALSE]
    /\ UNCHANGED <<callLang, calls, frames>>

-----------------------------------------------------------------------------
(* Theme *)

Style(fg, bold, italic, underline) ==
    [fg |-> fg, bg |-> "None", bold |-> bold, italic |-> italic, underline |-> underline]

\* TokenStyle::new
StyleNew(fg) == Style(fg, FALSE, FALSE, FALSE)

\* enum TokenKind, in declaration order (`kind as usize` is the position - 1)
TokenKinds ==
    << "Whitespace", "Comment", "Error", "String",
       "Number", "Boolean", "Null", "Char",
       "Keyword", "KeywordControl", "KeywordFunction", "KeywordImport",
       "KeywordStorage", "KeywordType", "KeywordOperator", "Identifier",
       "TypeName", "FunctionName", "VariableName", "PropertyName",
       "ParameterName", "Operator", "Punctuation", "Delimiter",
       "Separator", "Attribute", "Macro", "Label",
       "Escape", "JsonKey", "JsonBrace", "JsonBracket",
       "JsonColon", "JsonComma", "RustLifetime", "RustMacro",
       "RustAttribute", "MarkdownHeading", "MarkdownBold", "MarkdownItalic",
       "MarkdownCode", "MarkdownLink" >>

Kinds == {TokenKinds[i] : i \in DOMAIN TokenKinds}

\* Theme::default_dark
DefaultDark ==
    [k \in Kinds |->
      IF k = "Comment" THEN Style(6986069, FALSE, TRUE, FALSE) ELSE
      IF k = "Error" THEN Style(16009031, FALSE, FALSE, TRUE) ELSE
      IF k = "String" THEN Style(13537656, FALSE, FALSE, FALSE) ELSE
      IF k = "Number" THEN Style(11914920, FALSE, FALSE, FALSE) ELSE
      IF k = "Boolean" THEN Style(5676246, TRUE, FALSE, FALSE) ELSE
      IF k = "Null" THEN Style(5676246, TRUE, FALSE, FALSE) ELSE
      IF k = "Char" THEN Style(13537656, FALSE, FALSE, FALSE) ELSE
      IF k = "Keyword" THEN Style(12945088, FALSE, FALSE, FALSE) ELSE
      IF k = "KeywordControl" THEN Style(12945088, TRUE, FALSE, FALSE) ELSE
      IF k = "KeywordFunction" THEN Style(12945088, TRUE, FALSE, FALSE) ELSE
      IF k = "KeywordImport" THEN Style(12945088, FALSE, FALSE, FALSE) ELSE
      IF k = "KeywordStorage" THEN Style(5676246, FALSE, FALSE, FALSE) ELSE
      IF k = "KeywordType" THEN Style(5163440, FALSE, FALSE, FALSE) ELSE
      IF k = "KeywordOperator" THEN Style(12945088, FALSE, FALSE, FALSE) ELSE
      IF k = "Identifier" THEN Style(13948116, FALSE, FALSE, FALSE) ELSE
      IF k = "TypeName" THEN Style(5163440, FALSE, FALSE, FALSE) ELSE
      IF k = "FunctionName" THEN Style(14474410, FALSE, FALSE, FALSE) ELSE
      IF k = "VariableName" THEN Style(10280190, FALSE, FALSE, FALSE) ELSE
      IF k = "PropertyName" THEN Style(10280190, FALSE, FALSE, FALSE) ELSE
      IF k = "ParameterName" THEN Style(10280190, FALSE, FALSE, FALSE) ELSE
      IF k = "Operator" THEN Style(13948116, FALSE, FALSE, FALSE) ELSE
      IF k = "Punctuation" THEN Style(13948116, FALSE, FALSE, FALSE) ELSE
      IF k = "Delimiter" THEN Style(13948116, FALSE, FALSE, FALSE) ELSE
      IF k = "Separator" THEN Style(13948116, FALSE, FALSE, FALSE) ELSE
      IF k = "Attribute" THEN Style(5163440, FALSE, FALSE, FALSE) ELSE
      IF k = "Macro" THEN Style(5163440, FALSE, FALSE, FALSE) ELSE
      IF k = "Label" THEN Style(14474410, FALSE, FALSE, FALSE) ELSE
      IF k = "Escape" THEN Style(14137981, FALSE, FALSE, FALSE) ELSE
      IF k = "JsonKey" THEN Style(10280190, FALSE, FALSE, FALSE) ELSE
      IF k = "JsonBrace" THEN Style(13948116, FALSE, FALSE, FALSE) ELSE
      IF k = "JsonBracket" THEN Style(13948116, FALSE, FALSE, FALSE) ELSE
      IF k = "JsonColon" THEN Style(13948116, FALSE, FALSE, FALSE) ELSE
      IF k = "JsonComma" THEN Style(13948116, FALSE, FALSE, FALSE) ELSE
      IF k = "RustLifetime" THEN Style(5163440, FALSE, TRUE, FALSE) ELSE
      IF k = "RustMacro" THEN Style(5163440, FALSE, FALSE, FALSE) ELSE
      IF k = "RustAttribute" THEN Style(5163440, FALSE, FALSE, FALSE) ELSE
      IF k = "MarkdownHeading" THEN Style(5676246, TRUE, FALSE, FALSE) ELSE
      IF k = "MarkdownBold" THEN Style(13948116, TRUE, FALSE, FALSE) ELSE
      IF k = "MarkdownItalic" THEN Style(13948116, FALSE, TRUE, FALSE) ELSE
      IF k = "MarkdownCode" THEN Style(13537656, FALSE, FALSE, FALSE) ELSE
      IF k = "MarkdownLink" THEN Style(5163440, FALSE, FALSE, TRUE) ELSE
      StyleNew(13948116)]

\* Theme::default_light
DefaultLight ==
    [k \in Kinds |->
      IF k = "Comment" THEN Style(32768, FALSE, TRUE, FALSE) ELSE
      IF k = "Error" THEN Style(16711680, FALSE, FALSE, TRUE) ELSE
      IF k = "String" THEN Style(10687765, FALSE, FALSE, FALSE) ELSE
      IF k = "Number" THEN Style(624216, FALSE, FALSE, FALSE) ELSE
      IF k = "Boolean" THEN Style(255, TRUE, FALSE, FALSE) ELSE
      IF k = "Null" THEN Style(255, TRUE, FALSE, FALSE) ELSE
      IF k = "Char" THEN Style(10687765, FALSE, FALSE, FALSE) ELSE
      IF k = "Keyword" THEN Style(255, FALSE, FALSE, FALSE) ELSE
      IF k = "KeywordControl" THEN Style(11469019, TRUE, FALSE, FALSE) ELSE
      IF k = "KeywordFunction" THEN Style(255, TRUE, FALSE, FALSE) ELSE
      IF k = "KeywordImport" THEN Style(11469019, FALSE, FALSE, FALSE) ELSE
      IF k = "KeywordStorage" THEN Style(255, FALSE, FALSE, FALSE) ELSE
      IF k = "KeywordType" THEN Style(2523033, FALSE, FALSE, FALSE) ELSE
      IF k = "KeywordOperator" THEN Style(255, FALSE, FALSE, FALSE) ELSE
      IF k = "Identifier" THEN Style(0, FALSE, FALSE, FALSE) ELSE
      IF k = "TypeName" THEN Style(2523033, FALSE, FALSE, FALSE) ELSE
      IF k = "FunctionName" THEN Style(7953958, FALSE, FALSE, FALSE) ELSE
      IF k = "VariableName" THEN Style(4224, FALSE, FALSE, FALSE) ELSE
      StyleNew(0)]

\* The highlighter owns one of the built-in palettes; the variable holds the
\* name of its constructor and Palette gives its table.
ThemeNames == {"default_dark", "default_light"}
Palette(th) == IF th = "default_dark" THEN DefaultDark ELSE DefaultLight

\* `kind as usize`: the position of the kind in the enum, from 0
kind_as_usize(kind) == CHOOSE i \in 0..(Len(TokenKinds) - 1) : TokenKinds[i + 1] = kind

\* Theme.styles as the constructor th leaves it: 256 entries, the entries of
\* the token kinds first; entry i of the source is ThemeStyles(th)[i + 1].
ThemeStyles(th) ==
    LET palette == Palette(th)
    IN [i \in 1..256 |->
           IF i <= Len(TokenKinds) THEN palette[TokenKinds[i]]
           ELSE StyleNew(IF th = "default_dark" THEN 13948116 ELSE 0)]

\* Theme::get_style on the table:
\* self.styles.get(kind as usize).copied().unwrap_or(TokenStyle::new(rgb(0xD4D4D4)))
Theme_get_style(table, kind) ==
    IF kind_as_usize(kind) < Len(table) THEN table[kind_as_usize(kind) + 1]
    ELSE StyleNew(13948116)

\* A set_style that writes the entry after the one of the kind.
Theme_set_style_next(table, kind, style) ==
    IF kind_as_usize(kind) + 1 < Len(table)
    THEN [table EXCEPT ![kind_as_usize(kind) + 2] = style]
    ELSE table

\* Theme::set_style on the table
Theme_set_style(table, kind, style) ==
    IF kind_as_usize(kind) < Len(table)
    THEN [table EXCEPT ![kind_as_usize(kind) + 1] = style]
    ELSE table

\* Theme::get_style of the built-in theme th: the table entry of the kind
\* (the table of a constructor has an entry for every kind)
get_style(th, kind) == Palette(th)[kind]

-----------------------------------------------------------------------------
(* The calls made on a Theme object of its own: the last call, its         *)
(* arguments and its result are in fcall.                                  *)

\* theme.get_style(kind)
GetStyle(kind) ==
    /\ styles # <<>>
    /\ fcall' = [fn |-> "get_style", arg |-> [kind |-> kind],
                 ret |-> Theme_get_style(styles, kind), done |-> TRUE]
    /\ UNCHANGED styles

\* theme.set_style(kind, style)
SetStyle(kind, style) ==
    /\ styles # <<>>
    /\ styles' = Theme_set_style(styles, kind, style)
    /\ fcall' = [fn |-> "set_style", arg |-> [kind |-> kind, style |-> style],
                 ret |-> "none", done |-> TRUE]

-----------------------------------------------------------------------------
(* SyntaxHighlighter *)

VARIABLES language, tokens, dirty_range, theme, doc_len, status, op

hlVars == <<language, tokens, dirty_range, theme, doc_len, status, op>>

vars == <<scanLang, scanText, scanPos, scanTokens, scanStatus, scanLineStart,
          language, tokens, dirty_range, theme, doc_len, status, op,
          callLang, calls, frames, memo, fcall, styles>>

\* Option<Range<usize>>
None == [some |-> FALSE, start |-> 0, end |-> 0]
Some(start, end) == [some |-> TRUE, start |-> start, end |-> end]

\* Option<TokenStyle>
NoStyle == <<>>
SomeStyle(s) == <<s>>

Min(a, b) == IF a <= b THEN a ELSE b
Max(a, b) == IF a >= b THEN a ELSE b

\* The languages and texts the highlighter is driven with.
HlLanguages == {"Json", "Markdown", "JavaScript"}

HlAlphabet(lang) ==
    IF lang = "Json" THEN {49, Ch.dq}
    ELSE IF lang = "Markdown" THEN {Ch.hash, Ch.lf}
    ELSE {Ch.btick, Ch.bslash}

\* One longer text per language, of three tokens:  1 ""   #\n#\n   a `\
HlSamples(lang) ==
    IF lang = "Json" THEN {<<49, 32, 34, 34>>}
    ELSE IF lang = "Markdown" THEN {<<35, 10, 35, 10>>}
    ELSE {<<97, 32, 96, 92>>}

HlTexts(lang) == SeqsUpTo(HlAlphabet(lang), HlMaxLen) \cup HlSamples(lang)

Offsets == 0..MaxOff
Ranges == {[start |-> s, end |-> e] : s \in Offsets, e \in Offsets}

\* The last call made on the highlighter, its arguments and what it returned.
Call(name) ==
    [name |-> name, text |-> <<>>, force |-> FALSE, range |-> [start |-> 0, end |-> 0],
     offset |-> 0, early |-> FALSE, style |-> NoStyle, slice |-> <<>>]

\* SyntaxHighlighter::new
HlInit ==
    /\ language \in HlLanguages
    /\ tokens = <<>>
    /\ dirty_range = Some(0, UsizeMax)
    /\ theme \in ThemeNames
    /\ doc_len = 0
    /\ status = "running"
    /\ op = Call("new")

\* Mutation of MergeDirty: the new range replaces the pending one.
MergeDirtyOverwrite(dirty, range) == Some(range.start, range.end)

\* mark_dirty's new value of dirty_range
MergeDirty(dirty, range) ==
    IF dirty.some
    THEN Some(Min(dirty.start, range.start), Max(dirty.end, range.end))
    ELSE Some(range.start, range.end)

mark_dirty(range) ==
    /\ status = "running"
    /\ dirty_range' = MergeDirty(dirty_range, range)
    /\ op' = [Call("mark_dirty") EXCEPT !.range = range]
    /\ UNCHANGED <<language, tokens, theme, doc_len, status>>

\* Mutations of the early return of update: the length test inverted, the
\* length test left out, the dirty range not looked at.
UpdateIsNoopInvertedLength(text, force) ==
    ~force /\ ~dirty_range.some /\ Len(text) # doc_len
UpdateIsNoopIgnoresLength(text, force) == ~force /\ ~dirty_range.some
UpdateIsNoopIgnoresDirty(text, force) == ~force /\ Len(text) = doc_len

\* The early return of update.
UpdateIsNoop(text, force) == ~force /\ ~dirty_range.some /\ Len(text) = doc_len

update(text, force) ==
    /\ status = "running"
    /\ LET r == tokenize(language, text)
       IN IF UpdateIsNoop(text, force)
          THEN /\ op' = [Call("update") EXCEPT !.text = text, !.force = force,
                                               !.early = TRUE]
               /\ UNCHANGED <<tokens, dirty_range, doc_len, status>>
          ELSE IF r.status # "ok"
               \* tokenize does not return: nothing is assigned
               THEN /\ status' = r.status
                    /\ op' = [Call("update") EXCEPT !.text = text, !.force = force]
                    /\ UNCHANGED <<tokens, dirty_range, doc_len>>
          ELSE /\ tokens' = r.tokens
               /\ dirty_range' = None
               /\ doc_len' = Len(text)
               /\ op' = [Call("update") EXCEPT !.text = text, !.force = force]
               /\ UNCHANGED status
    /\ UNCHANGED <<language, theme>>

\* Mutation of StyleOrdering: a span takes in its end offset.
StyleOrderingInclusiveEnd(token, offset) ==
    IF offset < token.span.start THEN "Greater"
    ELSE IF offset > token.span.end THEN "Less"
    ELSE "Equal"

\* The closure get_style_at gives to binary_search_by.
StyleOrdering(token, offset) ==
    IF offset < token.span.start THEN "Greater"
    ELSE IF offset >= token.span.end THEN "Less"
    ELSE "Equal"

\* <[T]>::binary_search_by over the orderings the closure returns for the
\* elements: the loop halves the window [base, base + size).
RECURSIVE BinarySearchLoop(_, _, _)
BinarySearchLoop(cmps, base, size) ==
    IF size > 1
    THEN LET half == size \div 2
             mid == base + half
         IN BinarySearchLoop(cmps, IF cmps[mid + 1] = "Greater" THEN base ELSE mid,
                             size - half)
    ELSE base

BinarySearchBy(cmps) ==
    IF Len(cmps) = 0 THEN [found |-> FALSE, idx |-> 0]
    ELSE LET base == BinarySearchLoop(cmps, 0, Len(cmps))
             cmp == cmps[base + 1]
         IN IF cmp = "Equal" THEN [found |-> TRUE, idx |-> base]
            ELSE [found |-> FALSE, idx |-> base + (IF cmp = "Less" THEN 1 ELSE 0)]

\* <[T]>::partition_point over the values of the predicate
PartitionPoint(preds) ==
    BinarySearchBy([i \in DOMAIN preds |-> IF preds[i] THEN "Less" ELSE "Greater"]).idx

StyleAt(toks, th, offset) ==
    LET idx == BinarySearchBy([i \in DOMAIN toks |-> StyleOrdering(toks[i], offset)])
    IN IF idx.found THEN SomeStyle(get_style(th, toks[idx.idx + 1].kind))
       ELSE NoStyle

get_style_at(offset) ==
    /\ status = "running"
    /\ op' = [Call("get_style_at") EXCEPT !.offset = offset,
                                          !.style = StyleAt(tokens, theme, offset)]
    /\ UNCHANGED <<language, tokens, dirty_range, theme, doc_len, status>>

\* Mutation of start_idx: a token ending at range.start is kept.
start_idx_strict(toks, range) ==
    PartitionPoint([i \in DOMAIN toks |-> toks[i].span.end < range.start])

start_idx(toks, range) ==
    PartitionPoint([i \in DOMAIN toks |-> toks[i].span.end <= range.start])
end_idx(toks, range) ==
    PartitionPoint([i \in DOMAIN toks |-> toks[i].span.start < range.end])

\* &self.tokens[start_idx..end_idx] panics when start_idx > end_idx
RangePanics(toks, range) == start_idx(toks, range) > end_idx(toks, range)

TokensInRange(toks, range) ==
    SubSeq(toks, start_idx(toks, range) + 1, end_idx(toks, range))

get_tokens_in_range(range) ==
    /\ status = "running"
    /\ IF RangePanics(tokens, range)
       THEN /\ status' = "panic"
            /\ op' = [Call("get_tokens_in_range") EXCEPT !.range = range]
       ELSE /\ op' = [Call("get_tokens_in_range") EXCEPT !.range = range,
                             !.slice = TokensInRange(tokens, range)]
            /\ UNCHANGED status
    /\ UNCHANGED <<language, tokens, dirty_range, theme, doc_len>>

\* set_theme that also empties the cache.
set_theme_clearing(th) ==
    /\ status = "running"
    /\ theme' = th
    /\ tokens' = <<>>
    /\ doc_len' = 0
    /\ op' = Call("set_theme")
    /\ UNCHANGED <<language, dirty_range, status>>

\* set_theme that also invalidates the cache.
set_theme_invalidating(th) ==
    /\ status = "running"
    /\ theme' = th
    /\ dirty_range' = Some(0, UsizeMax)
    /\ op' = Call("set_theme")
    /\ UNCHANGED <<language, tokens, doc_len, status>>

set_theme(th) ==
    /\ status = "running"
    /\ theme' = th
    /\ op' = Call("set_theme")
    /\ UNCHANGED <<language, tokens, dirty_range, doc_len, status>>

\* theme() and language() return a field
theme_get ==
    /\ status = "running"
    /\ op' = Call("theme")
    /\ UNCHANGED <<language, tokens, dirty_range, theme, doc_len, status>>

language_get ==
    /\ status = "running"
    /\ op' = Call("language")
    /\ UNCHANGED <<language, tokens, dirty_range, theme, doc_len, status>>

-----------------------------------------------------------------------------
(* Specifications *)

\* No tokenize call of its own is running next to the highlighter.
ScanIdle ==
    /\ scanLang = "PlainText"
    /\ scanText = <<>>
    /\ scanPos = 0
    /\ scanTokens = <<>>
    /\ scanStatus = "done"
    /\ scanLineStart = TRUE

\* No highlighter next to a tokenize call.
HlIdle ==
    /\ language = "PlainText"
    /\ tokens = <<>>
    /\ dirty_range = Some(0, UsizeMax)
    /\ theme = "default_dark"
    /\ doc_len = 0
    /\ status = "running"
    /\ op = Call("new")

\* No thread makes a call.
CallsIdle == CallsInit /\ callLang = "PlainText"

Init == HlInit /\ ScanIdle /\ CallsIdle /\ FnIdle

Next ==
    \/ \E r \in Ranges : mark_dirty(r) /\ UNCHANGED <<scanVars, callVars, fcall, styles>>
    \/ \E text \in HlTexts(language), force \in BOOLEAN :
          update(text, force) /\ UNCHANGED <<scanVars, callVars, fcall, styles>>
    \/ \E offset \in 0..(MaxOff + 1) : get_style_at(offset) /\ UNCHANGED <<scanVars, callVars, fcall, styles>>
    \/ \E r \in Ranges : get_tokens_in_range(r) /\ UNCHANGED <<scanVars, callVars, fcall, styles>>
    \/ \E th \in ThemeNames : set_theme(th) /\ UNCHANGED <<scanVars, callVars, fcall, styles>>
    \/ theme_get /\ UNCHANGED <<scanVars, callVars, fcall, styles>>
    \/ language_get /\ UNCHANGED <<scanVars, callVars, fcall, styles>>

Spec == Init /\ [][Next]_vars

\* A single tokenize call.
InitScan == ScanInit /\ HlIdle /\ CallsIdle /\ FnIdle

NextScan ==
    \/ ScanStep /\ UNCHANGED <<hlVars, callVars, fcall, styles>>
    \/ ScanReturn /\ UNCHANGED <<hlVars, callVars, fcall, styles>>

SpecScan == InitScan /\ [][NextScan]_vars

\* Two threads calling one lexer, each call after call, interleaved at the
\* iterations of the main loops.
InitThreads == CallsInit /\ HlIdle /\ ScanIdle /\ FnIdle

NextThreads ==
    \/ \E t \in Threads, text \in CallTexts(callLang) :
          ThreadCall(t, text) /\ UNCHANGED <<hlVars, scanVars, fcall, styles>>
    \/ \E t \in Threads : ThreadStep(t) /\ UNCHANGED <<hlVars, scanVars, fcall, styles>>
    \/ \E t \in Threads : ThreadReturn(t) /\ UNCHANGED <<hlVars, scanVars, fcall, styles>>

SpecThreads == InitThreads /\ [][NextThreads]_vars

\* One thread calling one lexer again and again; the result of one of the
\* calls is kept.
NextRepeat ==
    \/ \E text \in CallTexts(callLang) :
          ThreadCall("t1", text) /\ UNCHANGED <<hlVars, scanVars, fcall, styles>>
    \/ ThreadStep("t1") /\ UNCHANGED <<hlVars, scanVars, fcall, styles>>
    \/ ThreadReturn("t1") /\ UNCHANGED <<hlVars, scanVars, fcall, styles>>
    \/ Remember("t1") /\ UNCHANGED <<hlVars, scanVars, fcall, styles>>

SpecRepeat == InitThreads /\ [][NextRepeat]_vars

\* One call of a function without state, for every argument.
InitFn == FnInit /\ styles = <<>> /\ HlIdle /\ ScanIdle /\ CallsIdle

NextFn ==
    \/ CallFromExtension /\ UNCHANGED <<hlVars, scanVars, callVars, styles>>
    \/ CallParseColor /\ UNCHANGED <<hlVars, scanVars, callVars, styles>>

SpecFn == InitFn /\ [][NextFn]_vars

\* A theme made by one of the constructors, then any calls of get_style
\* and set_style: overrides of the first and the last kind and of two
\* kinds between, by a style of every flag and by the plain black one.
InitTheme ==
    /\ styles \in {ThemeStyles(th) : th \in ThemeNames}
    /\ fcall = [fn |-> "new", arg |-> <<>>, ret |-> "none", done |-> TRUE]
    /\ HlIdle /\ ScanIdle /\ CallsIdle

NextTheme ==
    \/ \E kind \in Kinds : GetStyle(kind) /\ UNCHANGED <<hlVars, scanVars, callVars>>
    \/ \E kind \in {"Whitespace", "Comment", "Error", "MarkdownLink"},
          style \in {[StyleNew(255) EXCEPT !.bold = TRUE, !.italic = TRUE,
                                          !.underline = TRUE, !.bg = 1],
                     StyleNew(0)} :
          SetStyle(kind, style) /\ UNCHANGED <<hlVars, scanVars, callVars>>

SpecTheme == InitTheme /\ [][NextTheme]_vars

-----------------------------------------------------------------------------
(* Properties of tokenize *)

\* toks covers [0, len) without gap or overlap, in ascending order.
IsPartition(toks, len) ==
    IF len = 0 THEN toks = <<>>
    ELSE /\ toks # <<>>
         /\ toks[1].span.start = 0
         /\ \A i \in 1..(Len(toks) - 1) : toks[i + 1].span.start = toks[i].span.end
         /\ toks[Len(toks)].span.end = len
         /\ \A i \in 1..(Len(toks) - 1) : toks[i].span.start < toks[i + 1].span.start

\* C1: for every language and every input, the tokens tokenize returns
\* partition [0, len(text)): the first starts at 0, each starts where the
\* previous one ends, the last ends at len(text), starts ascend, and an
\* empty input gives no tokens.
C1_TokensPartitionInput ==
    scanStatus = "done" => IsPartition(scanTokens, Len(scanText))

\* C2: tokenize terminates, and every iteration of the main loop ends with
\* the cursor at least one byte further than where it started.
C2_EveryIterationAdvances ==
    [][ScanStep => (scanStatus' # "hang" /\ scanPos' > scanPos)]_vars

-----------------------------------------------------------------------------
(* Properties of the highlighter *)

\* C4: update(text, false) on a clean highlighter (no pending dirty range,
\* len(text) = doc_len) changes none of tokens, dirty range, doc_len, theme
\* and language, also when the bytes of text differ from the cached text.
C4_CleanUpdateIsNoop ==
    [][(/\ op'.name = "update"
        /\ ~op'.force
        /\ ~dirty_range.some
        /\ Len(op'.text) = doc_len)
       => UNCHANGED <<tokens, dirty_range, doc_len, theme, language, status>>]_vars

\* An unforced update returned early although the cache holds the tokens of
\* another text of the same length.
C4_Witness ==
    /\ op.name = "update"
    /\ op.early
    /\ ~op.force
    /\ ~dirty_range.some
    /\ Len(op.text) = doc_len
    /\ tokens # tokenize(language, op.text).tokens

C6_StyleAtIsLinearScan ==
    op.name = "get_style_at" =>
        LET hits == {i \in DOMAIN tokens :
                        /\ tokens[i].span.start <= op.offset
                        /\ op.offset < tokens[i].span.end}
        IN IF hits = {} THEN op.style = NoStyle
           ELSE \E i \in hits :
                   /\ \A j \in hits : i <= j
                   /\ op.style = SomeStyle(get_style(theme, tokens[i].kind))

\* A lookup that found the third token of the cache.
C6_Witness ==
    /\ op.name = "get_style_at"
    /\ Len(tokens) >= 3
    /\ op.offset >= tokens[3].span.start
    /\ op.style = SomeStyle(get_style(theme, tokens[3].kind))

\* C7: for start < end, get_tokens_in_range returns, in cache order, exactly
\* the cached tokens with span.start < range.end and span.end > range.start,
\* and they are a contiguous stretch of the cache.
C7_RangeIsOverlappingTokens ==
    (op.name = "get_tokens_in_range" /\ op.range.start < op.range.end) =>
        LET Overlaps(t) == t.span.start < op.range.end /\ t.span.end > op.range.start
        IN /\ status = "running"
           /\ op.slice = SelectSeq(tokens, Overlaps)
           /\ \E a \in 1..(Len(tokens) + 1), b \in 0..Len(tokens) :
                 op.slice = SubSeq(tokens, a, b)

\* A query that returned a stretch of the cache that leaves out its first
\* and its last token.
C7_Witness ==
    /\ op.name = "get_tokens_in_range"
    /\ status = "running"
    /\ op.range.start < op.range.end
    /\ Len(tokens) >= 3
    /\ op.slice = <<tokens[2]>>

\* C8: get_style_at and get_tokens_in_range return normally and modify
\* nothing, for every offset and every range: empty, beyond the document,
\* or with start > end.
C8_QueriesReturnAndModifyNothing ==
    [][op'.name \in {"get_style_at", "get_tokens_in_range"}
       => (/\ status' = "running"
           /\ UNCHANGED <<language, tokens, dirty_range, theme, doc_len>>)]_vars

\* C9: mark_dirty(r) makes r the pending range when none is pending, and
\* [min(old.start, r.start), max(old.end, r.end)) otherwise: one range.
C9_MarkDirtyMerges ==
    [][op'.name = "mark_dirty"
       => dirty_range' =
             IF dirty_range.some
             THEN Some(Min(dirty_range.start, op'.range.start),
                       Max(dirty_range.end, op'.range.end))
             ELSE Some(op'.range.start, op'.range.end)]_vars

\* A mark_dirty after an update met a pending range and widened it.
C9_Witness ==
    /\ op.name = "mark_dirty"
    /\ dirty_range.some
    /\ dirty_range.end # UsizeMax
    /\ dirty_range.start < op.range.start
    /\ dirty_range.end > op.range.end

\* C10: a dirty range stays pending from mark_dirty until the next update:
\* mark_dirty, set_theme and the queries never clear it, and the next
\* update, forced or not and with any text, clears it and leaves the
\* highlighter clean.
C10_DirtyUntilUpdate ==
    [][/\ op'.name = "mark_dirty" => dirty_range'.some
       /\ (dirty_range.some /\ op'.name # "update") => dirty_range'.some
       /\ (dirty_range.some /\ op'.name = "update" /\ status' = "running")
              => (~dirty_range'.some /\ doc_len' = Len(op'.text))]_vars

\* A dirty range marked after an update is still pending after set_theme
\* or a query.
C10_Witness ==
    /\ op.name \in {"set_theme", "get_style_at", "get_tokens_in_range"}
    /\ status = "running"
    /\ dirty_range.some
    /\ dirty_range.end # UsizeMax

\* C16: set_theme replaces the theme and nothing else (tokens, dirty range,
\* doc_len and language stay, nothing is tokenized again); theme() and
\* language() change nothing; the theme changes in no other call, and a
\* get_style_at that finds a token returns the style the current theme
\* gives to the kind of a cached token containing the offset.
C16_SetThemeReplacesOnlyTheme ==
    [][/\ op'.name = "set_theme"
            => UNCHANGED <<tokens, dirty_range, doc_len, language, status>>
       /\ op'.name \in {"theme", "language"}
            => UNCHANGED <<tokens, dirty_range, doc_len, language, theme, status>>
       /\ theme' # theme => op'.name = "set_theme"
       /\ (op'.name = "get_style_at" /\ op'.style # NoStyle)
            => \E i \in DOMAIN tokens :
                  /\ tokens[i].span.start <= op'.offset
                  /\ op'.offset < tokens[i].span.end
                  /\ op'.style = SomeStyle(Palette(theme')[tokens[i].kind])]_vars

\* set_theme has returned on a highlighter that holds the light theme,
\* cached tokens and a dirty range marked after the last update.
C16_Witness ==
    /\ op.name = "set_theme"
    /\ theme = "default_light"
    /\ Len(tokens) >= 2
    /\ dirty_range.some
    /\ dirty_range.end # UsizeMax
    /\ doc_len > 0

-----------------------------------------------------------------------------
(* Properties of the scanners' error handling *)

\* Bytes that start no construct of a programming or data language: a
\* control byte and a byte above 0x7f.  In plain text, Markdown and HTML
\* every byte is text.
UnknownBytes == {1, 128}
TextLanguages == {"PlainText", "Markdown", "Html"}

\* C11: in every scanner an iteration that starts at a byte the language has
\* no construct for pushes one token of kind Error that covers that byte,
\* and nothing else.
C11_UnknownByteIsError ==
    [][(/\ ScanStep
        /\ scanLang \notin TextLanguages
        /\ At(scanText, scanPos) \in UnknownBytes)
       => (/\ scanTokens' = Append(scanTokens, Token("Error", scanPos, scanPos + 1))
           /\ scanPos' = scanPos + 1)]_vars

C15_PlainTextIsOneIdentifier ==
    (scanLang = "PlainText" /\ scanStatus = "done") =>
        scanTokens = IF Len(scanText) = 0 THEN <<>>
                     ELSE <<[kind |-> "Identifier",
                             span |-> [start |-> 0, end |-> Len(scanText)]]>>

\* A plain text of several lines with a byte above 0x7f, tokenized.
C15_Witness ==
    /\ scanLang = "PlainText"
    /\ scanStatus = "done"
    /\ Len(scanText) >= 3
    /\ \E i, j \in DOMAIN scanText : scanText[i] = 128 /\ scanText[j] = Ch.lf
    /\ Len(scanTokens) = 1

\* C20: every token the JavaScript/TypeScript scanner returns ends inside
\* the text, span.end <= len(text), also for a template literal whose last
\* byte is a backslash.
C20_JavaScriptSpansWithinText ==
    (scanLang \in {"JavaScript", "TypeScript"} /\ scanStatus = "done") =>
        \A i \in 1..Len(scanTokens) : scanTokens[i].span.end <= Len(scanText)

\* C21: in the HTML scanner the scan of an opening tag finishes: the main-
\* loop iteration that starts at a '<' comes back, because every pass of the
\* attribute loop consumes a byte or leaves the loop, whatever follows the
\* tag name or an attribute.
C21_HtmlOpeningTagFinishes ==
    [][(ScanStep /\ scanLang = "Html" /\ At(scanText, scanPos) = Ch.lt)
       => scanStatus' # "hang"]_vars

\* The tokens that cover byte p of the text.
Covering(toks, p) ==
    {i \in DOMAIN toks : toks[i].span.start <= p /\ p < toks[i].span.end}

\* C22: for Markdown every byte of the input lies in exactly one token of
\* the result, a newline and a '#' that is not at a line start included.
C22_MarkdownEveryByteInOneToken ==
    (scanLang = "Markdown" /\ scanStatus = "done") =>
        \A p \in 0..(Len(scanText) - 1) : Cardinality(Covering(scanTokens, p)) = 1

\* C23: for AsciiDoc every byte of the input lies in exactly one token of
\* the result: also the newline that ends a heading, a block delimiter, an
\* attribute entry, a block title or a line comment, and the bytes after a
\* '{' that has no '}' on its line.
C23_AsciiDocEveryByteInOneToken ==
    (scanLang = "AsciiDoc" /\ scanStatus = "done") =>
        \A p \in 0..(Len(scanText) - 1) : Cardinality(Covering(scanTokens, p)) = 1

\* Where an attribute whose '[' lies just before pos ends: right after the
\* ']' that closes it, counting the pairs opened in between, and at the end
\* of the text when there is no such ']'.
RECURSIVE MatchingBracketEnd(_, _, _)
MatchingBracketEnd(text, pos, depth) ==
    IF pos >= Len(text) THEN Len(text)
    ELSE IF At(text, pos) = Ch.lbracket THEN MatchingBracketEnd(text, pos + 1, depth + 1)
    ELSE IF At(text, pos) = Ch.rbracket
         THEN IF depth = 0 THEN pos + 1
              ELSE MatchingBracketEnd(text, pos + 1, depth - 1)
    ELSE MatchingBracketEnd(text, pos + 1, depth)

\* C24: in the Rust scanner the iteration that starts at "#[" pushes one
\* RustAttribute token that ends right after the ']' matching that '[';
\* nested pairs do not end it early, bytes after the matching ']' are not
\* part of it, and it runs to the end of the input only without a match.
C24_RustAttributeEndsAtMatchingBracket ==
    [][(/\ ScanStep /\ scanLang = "Rust"
        /\ At(scanText, scanPos) = Ch.hash
        /\ scanPos + 1 < Len(scanText)
        /\ At(scanText, scanPos + 1) = Ch.lbracket)
       => scanTokens' = Append(scanTokens,
              Token("RustAttribute", scanPos,
                    MatchingBracketEnd(scanText, scanPos + 2, 0)))]_vars

\* The keyword kinds, Boolean and Null.
WordKinds ==
    { "Keyword", "KeywordControl", "KeywordFunction", "KeywordImport",
      "KeywordStorage", "KeywordType", "KeywordOperator", "Boolean", "Null" }

\* s is made of identifier bytes and starts like an identifier.
IsIdentifierRun(s) ==
    /\ s # <<>>
    /\ is_ident_start(s[1])
    /\ \A i \in DOMAIN s : s[i] \in IdentContinue

\* C25: in every scanner a token of a keyword kind, Boolean or Null that is
\* made of identifier bytes is a whole maximal run of them: no identifier
\* byte follows it.  A run that only begins with a table word ("fnx",
\* "trueish", "false_positive", "nullable") is one Identifier token.
C25_KeywordIsWholeIdentifierRun ==
    scanStatus = "done" =>
        \A i \in DOMAIN scanTokens :
            (/\ scanTokens[i].kind \in WordKinds
             /\ scanTokens[i].span.end <= Len(scanText)
             /\ IsIdentifierRun(Slice(scanText, scanTokens[i].span.start,
                                      scanTokens[i].span.end)))
            => ~ (/\ scanTokens[i].span.end < Len(scanText)
                  /\ At(scanText, scanTokens[i].span.end) \in IdentContinue)

\* The first byte of S at or after pos that no backslash escapes, or the
\* end of the text.
RECURSIVE FirstUnescaped(_, _, _, _)
FirstUnescaped(text, pos, escaped, S) ==
    IF pos >= Len(text) THEN Len(text)
    ELSE IF escaped THEN FirstUnescaped(text, pos + 1, FALSE, S)
    ELSE IF At(text, pos) = Ch.bslash THEN FirstUnescaped(text, pos + 1, TRUE, S)
    ELSE IF At(text, pos) \in S THEN pos
    ELSE FirstUnescaped(text, pos + 1, FALSE, S)

\* The literal that opens with the quote before pos has no closing quote on
\* its line.
NoClosingQuote(text, pos, quote) ==
    \/ FirstUnescaped(text, pos, FALSE, {quote, Ch.lf}) = Len(text)
    \/ At(text, FirstUnescaped(text, pos, FALSE, {quote, Ch.lf})) = Ch.lf

CLikeLanguages == {"C", "Cpp", "CSharp", "Java", "Go", "Rust", "JavaScript"}

\* C26: in the C-like scanners the iteration at the '"' of a string literal
\* without closing quote pushes one String token that ends at the first
\* unescaped newline (before or after it) or at the end of the input.
C26_UnterminatedStringEndsAtNewline ==
    [][(/\ ScanStep /\ scanLang \in CLikeLanguages
        /\ At(scanText, scanPos) = Ch.dq
        /\ ~ (scanLang = "Java" /\ StartsWith(scanText, scanPos, <<Ch.dq, Ch.dq, Ch.dq>>))
        /\ NoClosingQuote(scanText, scanPos + 1, Ch.dq))
       => \E e \in { FirstUnescaped(scanText, scanPos + 1, FALSE, {Ch.lf}),
                     Min(FirstUnescaped(scanText, scanPos + 1, FALSE, {Ch.lf}) + 1,
                         Len(scanText)) } :
              scanTokens' = Append(scanTokens, Token("String", scanPos, e))]_vars

\* C27: in the Python and TOML scanners the iteration at the quote of a
\* single-line string literal without closing quote on its line pushes one
\* String token that ends just before the first newline no backslash
\* escapes, the newline left out, or at the end of the input.
C27_SingleLineStringEndsBeforeNewline ==
    [][(/\ ScanStep /\ scanLang \in {"Python", "Toml"}
        /\ At(scanText, scanPos) \in {Ch.dq, Ch.sq}
        /\ ~ StartsWith(scanText, scanPos,
                        <<At(scanText, scanPos), At(scanText, scanPos),
                          At(scanText, scanPos)>>)
        /\ NoClosingQuote(scanText, scanPos + 1, At(scanText, scanPos)))
       => scanTokens' = Append(scanTokens,
              Token("String", scanPos,
                    FirstUnescaped(scanText, scanPos + 1, FALSE, {Ch.lf})))]_vars

\* A TOML string without closing quote whose first newline is escaped has
\* been scanned: the token ends before the second newline.
C27_Witness ==
    /\ scanLang = "Toml"
    /\ scanText = <<Ch.dq, Ch.bslash, Ch.lf, Ch.lf>>
    /\ scanTokens = <<Token("String", 0, 3)>>
    /\ scanPos = 3

\* C28: in the Python scanner the iteration at an f-string (f or F and a
\* quote) without closing quote on its line pushes one String token that
\* ends just before the first unescaped newline, like a plain string.
C28_FStringEndsBeforeNewline ==
    [][(/\ ScanStep /\ scanLang = "Python"
        /\ At(scanText, scanPos) \in {102, 70}
        /\ scanPos + 1 < Len(scanText)
        /\ At(scanText, scanPos + 1) \in {Ch.dq, Ch.sq}
        /\ NoClosingQuote(scanText, scanPos + 2, At(scanText, scanPos + 1)))
       => scanTokens' = Append(scanTokens,
              Token("String", scanPos,
                    FirstUnescaped(scanText, scanPos + 2, FALSE, {Ch.lf})))]_vars

\* The end of a quoted literal whose closing quote is the first byte of
\* closing at or after pos: right after it, or the end of the text.
EndAfterFirst(text, pos, closing) ==
    IF \E q \in pos..(Len(text) - 1) : q \in closing
    THEN (CHOOSE q \in pos..(Len(text) - 1) :
              q \in closing /\ \A r \in pos..(q - 1) : r \notin closing) + 1
    ELSE Len(text)

\* The quotes after the opening quote at start that close an SQL string:
\* the last quote of a run of an odd number of quotes.
SqlClosingQuotes(text, start) ==
    { q \in (start + 1)..(Len(text) - 1) :
        /\ At(text, q) = Ch.sq
        /\ (q + 1 < Len(text) => At(text, q + 1) # Ch.sq)
        /\ \E j \in start..(q - 1) :
              /\ j = start \/ At(text, j) # Ch.sq
              /\ \A k \in (j + 1)..q : At(text, k) = Ch.sq
              /\ (q - j) % 2 = 1 }

\* The quotes at or after pos that no backslash escapes.
UnescapedQuotes(text, pos, quote) ==
    { q \in pos..(Len(text) - 1) :
        /\ At(text, q) = quote
        /\ \E j \in (pos - 1)..(q - 1) :
              /\ j = pos - 1 \/ At(text, j) # Ch.bslash
              /\ \A k \in (j + 1)..(q - 1) : At(text, k) = Ch.bslash
              /\ (q - 1 - j) % 2 = 0 }

\* C29: a Shell single- or double-quoted string and an SQL single-quoted
\* string are one String token from the opening quote to right after the
\* matching closing quote, and to the end of the input when there is none;
\* a newline inside does not end the token, and in SQL a doubled quote
\* does not close it.
C29_ShellAndSqlStringsSpanLines ==
    [][(/\ ScanStep
        /\ \/ scanLang = "Shell" /\ At(scanText, scanPos) \in {Ch.sq, Ch.dq}
           \/ scanLang = "Sql" /\ At(scanText, scanPos) = Ch.sq)
       => scanTokens' = Append(scanTokens,
              Token("String", scanPos,
                    EndAfterFirst(scanText, scanPos + 1,
                        IF scanLang = "Sql" THEN SqlClosingQuotes(scanText, scanPos)
                        ELSE IF At(scanText, scanPos) = Ch.sq
                        THEN {q \in 0..(Len(scanText) - 1) : At(scanText, q) = Ch.sq}
                        ELSE UnescapedQuotes(scanText, scanPos + 1, Ch.dq))))]_vars

\* An SQL string with a newline inside has been scanned to its closing
\* quote, with more text after it.
C29_Witness ==
    /\ scanLang = "Sql"
    /\ scanText = <<39, 97, 10, 98, 39, 32, 99>>
    /\ scanTokens = <<Token("String", 0, 5)>>
    /\ scanPos = 5

\* The bytes a raw-string delimiter cannot hold.
NotInDelimiter == {Ch.lparen, Ch.rparen, Ch.bslash, Ch.dq} \cup WS

\* A raw string literal opens at pos: R, a quote, a delimiter and '('.
RawStringOpens(text, pos) ==
    /\ At(text, pos) = 82
    /\ pos + 1 < Len(text) /\ At(text, pos + 1) = Ch.dq
    /\ SkipUntil(text, pos + 2, NotInDelimiter) < Len(text)
    /\ At(text, SkipUntil(text, pos + 2, NotInDelimiter)) = Ch.lparen

\* Where the raw string with delimiter delim ends, its content starting at
\* pos: right after the first )delim" or at the end of the text.
RawStringEnd(text, pos, delim) ==
    EndAfterFirst(text, pos,
        { c \in pos..(Len(text) - 1) :
            /\ At(text, c) = Ch.rparen
            /\ c + 1 + Len(delim) < Len(text)
            /\ Slice(text, c + 1, c + 1 + Len(delim)) = delim
            /\ At(text, c + 1 + Len(delim)) = Ch.dq }) +
    (IF \E c \in pos..(Len(text) - 1) :
            /\ At(text, c) = Ch.rparen
            /\ c + 1 + Len(delim) < Len(text)
            /\ Slice(text, c + 1, c + 1 + Len(delim)) = delim
            /\ At(text, c + 1 + Len(delim)) = Ch.dq
     THEN Len(delim) + 1 ELSE 0)

\* C30: in the C++ scanner the iteration at a raw string literal
\* R"delim( ... )delim" pushes one String token that ends right after the
\* first )delim" that follows the opening, delim being the bytes between
\* the quote and the '(' (none for R"( ... )"), and at the end of the
\* input when there is no such closing sequence.
C30_RawStringEndsAtClosingSequence ==
    [][(/\ ScanStep /\ scanLang = "Cpp" /\ RawStringOpens(scanText, scanPos))
       => scanTokens' = Append(scanTokens,
              Token("String", scanPos,
                    RawStringEnd(scanText,
                        SkipUntil(scanText, scanPos + 2, NotInDelimiter) + 1,
                        Slice(scanText, scanPos + 2,
                              SkipUntil(scanText, scanPos + 2, NotInDelimiter)))))]_vars

\* An interpolated string opens at pos: $" or $@".
InterpolatedOpens(text, pos) ==
    /\ At(text, pos) = Ch.dollar
    /\ \/ pos + 1 < Len(text) /\ At(text, pos + 1) = Ch.dq
       \/ /\ pos + 2 < Len(text)
          /\ At(text, pos + 1) = Ch.at /\ At(text, pos + 2) = Ch.dq

\* Where an interpolated string closes, its content read from pos at the
\* given brace depth: right after the first closing quote at depth 0.  '{{'
\* is an escaped brace; a doubled quote (verbatim form) and a byte after a
\* backslash (regular form) are escaped; a quote in a hole does not close.
RECURSIVE InterpolatedClose(_, _, _, _)
InterpolatedClose(text, pos, verbatim, depth) ==
    IF pos >= Len(text) THEN Len(text)
    ELSE IF ~verbatim /\ At(text, pos) = Ch.bslash
         THEN InterpolatedClose(text, Min(pos + 2, Len(text)), verbatim, depth)
    ELSE IF At(text, pos) = Ch.dq
         THEN IF depth > 0 THEN InterpolatedClose(text, pos + 1, verbatim, depth)
              ELSE IF verbatim /\ pos + 1 < Len(text) /\ At(text, pos + 1) = Ch.dq
                   THEN InterpolatedClose(text, pos + 2, verbatim, depth)
              ELSE pos + 1
    ELSE IF At(text, pos) = Ch.lbrace
         THEN IF pos + 1 < Len(text) /\ At(text, pos + 1) = Ch.lbrace
              THEN InterpolatedClose(text, pos + 2, verbatim, depth)
              ELSE InterpolatedClose(text, pos + 1, verbatim, depth + 1)
    ELSE IF At(text, pos) = Ch.rbrace
         THEN InterpolatedClose(text, pos + 1, verbatim, Max(depth - 1, 0))
    ELSE InterpolatedClose(text, pos + 1, verbatim, depth)

\* C31: in the C# scanner the iteration at an interpolated string, $"..."
\* or $@"...", pushes one String token that ends right after the first
\* closing quote at brace depth 0 (at the end of the input when there is
\* none): a quote inside an interpolation hole does not end the token.
C31_InterpolatedStringClosesAtDepthZero ==
    [][(/\ ScanStep /\ scanLang = "CSharp" /\ InterpolatedOpens(scanText, scanPos))
       => scanTokens' = Append(scanTokens,
              Token("String", scanPos,
                    IF At(scanText, scanPos + 1) = Ch.at
                    THEN InterpolatedClose(scanText, scanPos + 3, TRUE, 0)
                    ELSE InterpolatedClose(scanText, scanPos + 2, FALSE, 0)))]_vars

\* The operators of the language's tables that the text holds at pos.
OperatorsAt(lang, text, pos) ==
    { w \in OperatorTable(lang) :
        /\ pos + Len(w) <= Len(text)
        /\ Slice(text, pos, pos + Len(w)) = w }

\* C32: in the C, C++, C#, Java, Go and SQL scanners, the iteration at a
\* byte where an operator of two or more bytes of the scanner's tables
\* begins pushes one Operator token that covers the longest such operator.
C32_TableOperatorIsOneToken ==
    [][(/\ ScanStep
        /\ OperatorsAt(scanLang, scanText, scanPos) # {})
       => \E w \in OperatorsAt(scanLang, scanText, scanPos) :
             /\ \A v \in OperatorsAt(scanLang, scanText, scanPos) : Len(v) <= Len(w)
             /\ scanTokens' = Append(scanTokens,
                    Token("Operator", scanPos, scanPos + Len(w)))]_vars

\* The end of the logical line of a directive that starts at start: the
\* first newline after start that no backslash immediately precedes, or the
\* end of the text.
LogicalLineEnd(text, start) ==
    IF \E q \in (start + 1)..(Len(text) - 1) :
           At(text, q) = Ch.lf /\ At(text, q - 1) # Ch.bslash
    THEN CHOOSE q \in (start + 1)..(Len(text) - 1) :
             /\ At(text, q) = Ch.lf /\ At(text, q - 1) # Ch.bslash
             /\ \A r \in (start + 1)..(q - 1) :
                    ~(At(text, r) = Ch.lf /\ At(text, r - 1) # Ch.bslash)
    ELSE Len(text)

\* C33: in the C and C++ scanners the iteration at a '#' pushes one Macro
\* token from the '#' to the end of its logical line: it stops before the
\* first newline that no backslash immediately precedes, or at the end of
\* the input.
C33_DirectiveEndsAtLogicalLineEnd ==
    [][(/\ ScanStep /\ scanLang \in {"C", "Cpp"} /\ At(scanText, scanPos) = Ch.hash)
       => scanTokens' = Append(scanTokens,
              Token("Macro", scanPos, LogicalLineEnd(scanText, scanPos)))]_vars

\* The end of the digits of a numeric literal that starts at start: an
\* optional '-', a run of digits and an optional '.' with digits after it.
CssDigitsEnd(text, start) ==
    IF /\ SkipWhile(text, StepIf(text, start, {Ch.minus}), Digits) + 1 < Len(text)
       /\ At(text, SkipWhile(text, StepIf(text, start, {Ch.minus}), Digits)) = Ch.dot
       /\ At(text, SkipWhile(text, StepIf(text, start, {Ch.minus}), Digits) + 1) \in Digits
    THEN SkipWhile(text,
             SkipWhile(text, StepIf(text, start, {Ch.minus}), Digits) + 1, Digits)
    ELSE SkipWhile(text, StepIf(text, start, {Ch.minus}), Digits)

\* The end of the literal with its unit: '%' or a run of letters.
CssLiteralEnd(text, start) ==
    IF CssDigitsEnd(text, start) < Len(text)
       /\ At(text, CssDigitsEnd(text, start)) = Ch.percent
    THEN CssDigitsEnd(text, start) + 1
    ELSE SkipWhile(text, CssDigitsEnd(text, start), Lower \cup Upper)

\* A numeric literal begins at pos and is delimited: a digit, or '-' and a
\* digit, and after its unit a byte that continues neither number nor unit.
CssLiteralAt(text, pos) ==
    /\ \/ At(text, pos) \in Digits
       \/ At(text, pos) = Ch.minus /\ pos + 1 < Len(text) /\ At(text, pos + 1) \in Digits
    /\ CssLiteralEnd(text, pos) < Len(text)
           => At(text, CssLiteralEnd(text, pos))
                  \notin IdentContinue \cup {Ch.dot, Ch.percent}

\* C34: in the CSS scanner the iteration at a numeric literal (digits with
\* an optional leading '-', fractional part and unit) pushes one Number
\* token over the whole literal with its unit, also when the literal has
\* one digit.
C34_CssNumberCoversLiteral ==
    [][(/\ ScanStep /\ scanLang = "Css" /\ CssLiteralAt(scanText, scanPos))
       => scanTokens' = Append(scanTokens,
              Token("Number", scanPos, CssLiteralEnd(scanText, scanPos)))]_vars

\* The scanners whose block comments do not nest.
FlatCommentLanguages ==
    {"C", "Cpp", "CSharp", "Java", "Go", "JavaScript", "TypeScript", "Css",
     "Sql", "Json"}

\* The offsets at or after pos where "*/" begins.
CommentCloses(text, pos) ==
    { q \in pos..(Len(text) - 2) :
        At(text, q) = Ch.star /\ At(text, q + 1) = Ch.slash }

\* Where a nesting comment read from pos at the given depth ends: right
\* after the "*/" that brings the depth to zero, -1 when there is none.
RECURSIVE NestedCommentClose(_, _, _)
NestedCommentClose(text, pos, depth) ==
    IF depth = 0 THEN pos
    ELSE IF pos + 1 >= Len(text) THEN -1
    ELSE IF At(text, pos) = Ch.slash /\ At(text, pos + 1) = Ch.star
         THEN NestedCommentClose(text, pos + 2, depth + 1)
    ELSE IF At(text, pos) = Ch.star /\ At(text, pos + 1) = Ch.slash
         THEN NestedCommentClose(text, pos + 2, depth - 1)
    ELSE NestedCommentClose(text, pos + 1, depth)

\* C35: block comments nest only in the Rust scanner.  The iteration at a
\* "/*" pushes one Comment token that, in Rust, ends right after the "*/"
\* that brings the nesting depth back to zero and, in the C, C++, C#, Java,
\* Go, JavaScript, CSS, SQL and JSON scanners, right after the first "*/"
\* that follows the opening, whatever "/*" occurs in between.
C35_BlockCommentsNestOnlyInRust ==
    [][(/\ ScanStep
        /\ At(scanText, scanPos) = Ch.slash
        /\ scanPos + 1 < Len(scanText) /\ At(scanText, scanPos + 1) = Ch.star)
       => /\ (scanLang = "Rust" /\ NestedCommentClose(scanText, scanPos + 2, 1) # -1)
                => scanTokens' = Append(scanTokens,
                       Token("Comment", scanPos,
                             NestedCommentClose(scanText, scanPos + 2, 1)))
          /\ (scanLang \in FlatCommentLanguages
                 /\ CommentCloses(scanText, scanPos + 2) # {})
                => scanTokens' = Append(scanTokens,
                       Token("Comment", scanPos,
                             EndAfterFirst(scanText, scanPos + 2,
                                 CommentCloses(scanText, scanPos + 2)) + 1))]_vars

\* The Rust scanner has taken "/*a/*b*/c*/" as one comment: the first "*/"
\* closed the inner comment only.
C35_Witness ==
    /\ scanLang = "Rust"
    /\ scanText = <<47, 42, 97, 47, 42, 98, 42, 47, 99, 42, 47>>
    /\ scanTokens = <<Token("Comment", 0, 11)>>
    /\ scanPos = 11

\* The text {"key": "value"} of test_json_simple.
KeyValueText ==
    <<123, 34, 107, 101, 121, 34, 58, 32, 34, 118, 97, 108, 117, 101, 34, 125>>

\* C36: in the JSON, Rust and C scanners the iteration at an opening double
\* quote pushes one String token that ends right after the first later
\* quote preceded by an even number (possibly zero) of consecutive
\* backslashes; a quote after an odd number of backslashes does not end it.
\* For the JSON text {"key": "value"} the first two tokens are
\* JsonBrace [0,1) and String [1,6).
C36_StringEndsAtFirstUnescapedQuote ==
    /\ [][(/\ ScanStep
           /\ scanLang \in {"Json", "Rust", "C"}
           /\ At(scanText, scanPos) = Ch.dq
           /\ UnescapedQuotes(scanText, scanPos + 1, Ch.dq) # {})
          => scanTokens' = Append(scanTokens,
                 Token("String", scanPos,
                       EndAfterFirst(scanText, scanPos + 1,
                           UnescapedQuotes(scanText, scanPos + 1, Ch.dq))))]_vars
    /\ []((scanLang = "Json" /\ scanText = KeyValueText /\ scanStatus = "done")
             => /\ Len(scanTokens) >= 2
                /\ scanTokens[1] = Token("JsonBrace", 0, 1)
                /\ scanTokens[2] = Token("String", 1, 6))

\* The C scanner has passed an escaped quote and an escaped backslash and
\* ended the string "\"\\" at its last quote, with more text after it.
C36_Witness ==
    /\ scanLang = "C"
    /\ scanText = <<34, 92, 34, 92, 92, 34, 97>>
    /\ scanTokens = <<Token("String", 0, 6)>>
    /\ scanPos = 6

\* A byte at pos is at the start of a line.
AtLineStart(text, pos) == pos = 0 \/ At(text, pos - 1) = Ch.lf

\* The offset of the first newline at or after pos, or the end of the text.
LineEnd(text, pos) ==
    IF \E q \in pos..(Len(text) - 1) : At(text, q) = Ch.lf
    THEN CHOOSE q \in pos..(Len(text) - 1) :
             At(text, q) = Ch.lf /\ \A r \in pos..(q - 1) : At(text, r) # Ch.lf
    ELSE Len(text)

\* The offsets where the lines of a text start.
LineStarts(text) ==
    {s \in 0..(Len(text) - 1) : AtLineStart(text, s)}

\* The MarkdownHeading tokens of a token vector.
Headings(toks) == {i \in DOMAIN toks : toks[i].kind = "MarkdownHeading"}

\* C37: in the Markdown scanner the iteration at a '#' pushes a
\* MarkdownHeading token if and only if the '#' is at offset 0 or right
\* after a newline; the token runs up to the next newline or the end of
\* the input; no other iteration pushes a heading; and a text whose lines
\* all start with '#' yields as many headings as it has lines.
C37_HeadingOnlyAtLineStart ==
    /\ [][(ScanStep /\ scanLang = "Markdown")
          => IF At(scanText, scanPos) = Ch.hash /\ AtLineStart(scanText, scanPos)
             THEN scanTokens' = Append(scanTokens,
                      Token("MarkdownHeading", scanPos, LineEnd(scanText, scanPos)))
             ELSE Headings(scanTokens') = Headings(scanTokens)]_vars
    /\ []((/\ scanLang = "Markdown" /\ scanStatus = "done"
           /\ \A s \in LineStarts(scanText) : At(scanText, s) = Ch.hash)
             => Cardinality(Headings(scanTokens)) = Cardinality(LineStarts(scanText)))

\* The two headings of "# Heading 1\n## Heading 2" have been scanned.
C37_Witness ==
    /\ scanLang = "Markdown"
    /\ scanText = <<35, 32, 72, 101, 97, 100, 105, 110, 103, 32, 49, 10,
                    35, 35, 32, 72, 101, 97, 100, 105, 110, 103, 32, 50>>
    /\ scanStatus = "done"
    /\ Cardinality(Headings(scanTokens)) = 2
    /\ scanTokens[1] = Token("MarkdownHeading", 0, 11)

C40_UnterminatedCommentRunsToEnd ==
    [][(/\ ScanStep
        /\ scanLang \in FlatCommentLanguages
        /\ At(scanText, scanPos) = Ch.slash
        /\ scanPos + 1 < Len(scanText) /\ At(scanText, scanPos + 1) = Ch.star
        /\ CommentCloses(scanText, scanPos + 2) = {})
       => scanTokens' = Append(scanTokens,
              Token("Comment", scanPos, Len(scanText)))]_vars

-----------------------------------------------------------------------------
(* Properties of repeated and concurrent calls *)

-----------------------------------------------------------------------------
(* Properties of the language registry *)

\* str::to_uppercase, for the same characters as to_lowercase
RECURSIVE to_uppercase(_)
to_uppercase(s) ==
    IF s = <<>> THEN <<>>
    ELSE LET c == Head(s)
         IN << IF c \in Lower THEN c - 32
               ELSE IF c = 383 THEN 83
               ELSE IF c = 305 THEN 73
               ELSE c >> \o to_uppercase(Tail(s))

\* An ASCII letter in both cases; any other character as it is.
AsciiCaseForms ==
    [c \in 0..127 |->
        IF c \in Lower THEN {c, c - 32} ELSE IF c \in Upper THEN {c, c + 32} ELSE {c}]

\* a and b are upper/lower-case spellings of one word.
SameSpelling(a, b) ==
    to_uppercase(a) = to_uppercase(b) \/ to_lowercase(a) = to_lowercase(b)

\* e is w with some of its ASCII letters in upper case, or with the Kelvin
\* sign for a k.
LowerCasesTo(e, w) ==
    /\ Len(e) = Len(w)
    /\ \A j \in 1..Len(w) :
          e[j] \in {w[j], w[j] - 32} \cup (IF w[j] = 107 THEN {8490} ELSE {})

\* C14 as stated: from_extension returns, for every string, the language of
\* the table word the string is an upper/lower-case spelling of, the same
\* language for the upper-case and the lower-case spelling of the string,
\* and PlainText for a string that is a spelling of no table word.
C14_SameForEverySpelling ==
    (fcall.fn = "from_extension" /\ fcall.done) =>
        /\ from_extension(to_uppercase(fcall.arg)) = fcall.ret
        /\ from_extension(to_lowercase(fcall.arg)) = fcall.ret
        /\ \A i \in DOMAIN ExtensionArms :
              (\E w \in ExtensionArms[i].words : SameSpelling(fcall.arg, w))
                  => fcall.ret = ExtensionArms[i].language
        /\ (\A i \in DOMAIN ExtensionArms :
               \A w \in ExtensionArms[i].words : ~SameSpelling(fcall.arg, w))
              => fcall.ret = "PlainText"

\* C14 as amended: from_extension returns the language of the table word
\* that its argument lower-cases to (an ASCII letter in either case, or the
\* Kelvin sign for k), PlainText when there is none, and for a string of
\* ASCII characters the same language for every upper/lower-case spelling.
C14_LowerCasedLookup ==
    (fcall.fn = "from_extension" /\ fcall.done) =>
        /\ \A i \in DOMAIN ExtensionArms :
              (\E w \in ExtensionArms[i].words : LowerCasesTo(fcall.arg, w))
                  => fcall.ret = ExtensionArms[i].language
        /\ (\A i \in DOMAIN ExtensionArms :
               \A w \in ExtensionArms[i].words : ~LowerCasesTo(fcall.arg, w))
              => fcall.ret = "PlainText"
        /\ (\A j \in DOMAIN fcall.arg : fcall.arg[j] < 128)
              => \A e \in Spellings(fcall.arg, AsciiCaseForms) :
                     from_extension(e) = fcall.ret

\* from_extension("Hpp") has returned Cpp.
C14_Witness ==
    /\ fcall.fn = "from_extension"
    /\ fcall.done
    /\ fcall.arg = <<72, 112, 112>>
    /\ fcall.ret = "Cpp"

-----------------------------------------------------------------------------
(* Properties of the settings *)

\* C19: parse_color returns a colour exactly for the strings that are, once
\* trimmed, '#' and 6 or 8 hex digits, with alpha 255 for 6 digits and the
\* last pair for 8; for every other string it returns None, and it never
\* panics.
C19_ColourIffHexDigits ==
    (fcall.fn = "parse_color" /\ fcall.done) =>
        IF /\ Len(trim(fcall.arg)) \in {7, 9}
           /\ trim(fcall.arg)[1] = Ch.hash
           /\ \A j \in 2..Len(trim(fcall.arg)) : trim(fcall.arg)[j] \in HexDigits
        THEN /\ fcall.ret.kind = "Some"
             /\ fcall.ret.value[4] =
                   IF Len(trim(fcall.arg)) = 7 THEN 255
                   ELSE 16 * to_digit(trim(fcall.arg)[8]) + to_digit(trim(fcall.arg)[9])
        ELSE fcall.ret.kind = "None"

-----------------------------------------------------------------------------
(* Properties of the theme *)

\* C17: get_style returns a style for every token kind and changes nothing;
\* on a theme as constructed it is the palette's entry of the kind, the
\* palette's default style where the constructor sets none; after
\* set_style(k, s), get_style(k) is s and get_style(k2) is what it was for
\* every other kind k2.
C17_SetStyleOverridesOneKind ==
    [][/\ fcall'.fn = "get_style"
            => /\ DOMAIN fcall'.ret = {"fg", "bg", "bold", "italic", "underline"}
               /\ UNCHANGED styles
               /\ \A th \in ThemeNames :
                     styles = ThemeStyles(th) => fcall'.ret = Palette(th)[fcall'.arg.kind]
       /\ fcall'.fn = "set_style"
            => /\ Theme_get_style(styles', fcall'.arg.kind) = fcall'.arg.style
               /\ \A k2 \in Kinds \ {fcall'.arg.kind} :
                     Theme_get_style(styles', k2) = Theme_get_style(styles, k2)]_vars

\* The last kind of the enum was overridden after another kind had been, and
\* the other kind still has its override.
C17_Witness ==
    /\ fcall.fn = "set_style"
    /\ fcall.arg.kind = "MarkdownLink"
    /\ Theme_get_style(styles, "MarkdownLink") = fcall.arg.style
    /\ Theme_get_style(styles, "Comment") = StyleNew(0)
    /\ Theme_get_style(styles, "Error") # StyleNew(0)
    /\ styles[256] = StyleNew(13948116)

====
